---- MODULE Spec2Model ----
(***************************************************************************)
(* Model of the Landsraad bot (landsraad_bot_enhanced.py): the houses      *)
(* table and reset log held in SQLite, the handlers that read and write    *)
(* them, and the single-threaded event loop that runs the handlers.        *)
(*                                                                         *)
(* A handler runs without interruption from one await to the next; the     *)
(* variable pc records where the running handler stands inside such a      *)
(* block, one SQL statement per step.  houses and reset_log are the        *)
(* committed tables; tx is the uncommitted working copy of the connection  *)
(* that has an open transaction.  A crash of the process may happen at any *)
(* step and loses everything but the committed tables.                     *)
(***************************************************************************)
EXTENDS Integers, Sequences, FiniteSets, TLC

VARIABLES
    phase,          \* process life cycle: down, connected, ready, failed
    pc,             \* position of the handler that holds the event loop
    schema,         \* TRUE when the tables exist in the database file
    houses,         \* committed rows of table houses, keyed by name
    reset_log,      \* committed rows of table reset_log, oldest first
    tx,             \* <<>> or <<working copy>> of an open transaction
    claimed_count,  \* local of ConfirmResetView.confirm_reset
    views,          \* HouseActionView messages whose buttons still exist
    confirm_views,  \* confirmation prompts whose buttons still exist
    submitted,      \* locals of the modal on_submit that is running
    panel,          \* summary field of the last control panel posted
    sectors,        \* committed rows of deep_desert_sectors, by sector_id
    pois,           \* committed rows of the four location tables, in order
    sector_views,   \* sector ids of the SectorDetailViews that still answer
    clock,          \* datetime.now(PST): weekday and minute of the day
    fired,          \* TRUE when the daily task has run at this minute
    last_schedule_message_id,   \* global of the same name: <<>> or <<id>>
    channel_messages,           \* schedule posts that exist: [id, channel]
    SCHEDULE_CHANNEL_ID,        \* global of the same name: <<>> or <<id>>
    last_schedule_channel_id,   \* global of the same name: <<>> or <<id>>
    bot_config,     \* data/bot_config.json: <<>> or <<the record saved>>
    sent,           \* messages the bot has sent; a message's id is its number
    printed,        \* lines printed by the last run of the task that posted
    channel_config,     \* committed rows of table channel_config, in order
    report_messages,    \* location reports that exist: [id, channel]
    prompt_age,     \* seconds since each confirmation prompt was sent
    fixed_count,    \* rows changed by the repair of alliances just run
    connections,    \* DatabaseManager._connections: the idle connections
    holding,        \* the connection each caller of get_connection holds
    opened,         \* connections opened by sqlite3.connect so far
    closed,         \* connections closed by conn.close()
    modal_embed,    \* <<>> or <<the house embed a modal last answered with>>
    refreshes,      \* each running update_location_reports: <<>> or <<its locals>>
    posting,        \* each schedule post awaiting channel.send: <<>> or <<its locals>>
    map_view        \* <<>> or <<the DeepDesertMapView of the map last sent>>

\* the Deep Desert map
map_vars == <<sectors, pois, sector_views>>

\* the clock and the weekly schedule post
\* the schedule channel, the post tracked in it and the configuration file
config_vars == <<SCHEDULE_CHANNEL_ID, last_schedule_channel_id, bot_config,
                 sent, printed>>

timer_vars == <<clock, fired, last_schedule_message_id, channel_messages,
                config_vars>>

\* the connection pool
pool_vars == <<connections, holding, opened, closed>>

\* coroutines suspended at an await, and the map view
await_vars == <<refreshes, posting, map_view>>

\* the location reports
report_vars == <<channel_config, report_messages>>

vars == <<phase, pc, schema, houses, reset_log, tx, claimed_count, views,
          confirm_views, submitted, panel, map_vars, timer_vars, report_vars,
          prompt_age, fixed_count, pool_vars, modal_embed, await_vars>>

----------------------------------------------------------------------------
(* Bounds of the model *)

\* number of roster houses the model keeps (the program keeps 25)
NumHouses == 2
\* HouseActionView messages open at the same time
MaxViews == 1
\* weekly resets confirmed in one behaviour
MaxResets == 1
\* rows and columns of the Deep Desert grid the model keeps (the program
\* keeps 9 of each, the letters A-I and the digits 1-9)
GridSize == 2
\* rows the four location tables hold together
MaxPois == 2
\* SectorDetailView messages open at the same time
MaxSectorViews == 1
\* text channels the bot sees, over all its guilds
NumChannels == 2
\* guilds the bot is in
NumGuilds == 2
\* calls of update_location_reports suspended at the same time
MaxTasks == 2
\* messages the bot sends to channels in one behaviour
MaxPosts == 2
\* DatabaseManager.max_connections (the program keeps 10)
max_connections == 2
\* connections opened in one behaviour
MaxOpened == 4

----------------------------------------------------------------------------
(* Program constants *)

GOAL_AMOUNT == 70000
ATREIDES == "Atreides"
HARKONNEN == "Harkonnen"
\* SQL NULL / Python None
NULL == "NULL"

\* SQL CURRENT_TIMESTAMP: the time of the statement that writes it.  Times
\* are kept as two values: the time of the statement at hand, and Earlier,
\* a time before it that rows written long ago carry.
CURRENT_TIMESTAMP == "now"
Earlier == "earlier"

\* the list of populate_initial_houses, in its order
AllHouses ==
    << "Alexin", "Argosaz", "Dyvets", "Ecaz", "Hagal", "Hurata",
       "Imota", "Kenola", "Lindaren", "Maros", "Mikarrol", "Moritani",
       "Mutelli", "Novebruns", "Richese", "Sor", "Spinnette", "Taligari",
       "Thorvald", "Tseida", "Varota", "Vernius", "Wallach", "Wayku",
       "Wydras" >>

\* the roster the model keeps: the first NumHouses names of the list
Roster == { AllHouses[i] : i \in 1..NumHouses }

\* a row of table houses as INSERT ... (name) creates it (column defaults)
DefaultRow ==
    [ quest |-> "Unknown", current_goal |-> 0, goal |-> GOAL_AMOUNT,
      points_per_delivery |-> 1, is_locked |-> 1, completed_by |-> NULL,
      notes |-> NULL, desert_location |-> NULL, alliance |-> NULL,
      deep_desert_cp |-> 0, last_updated |-> CURRENT_TIMESTAMP,
      updated_by |-> "System" ]

\* the table with no rows
NoRows == [ n \in {} |-> DefaultRow ]

----------------------------------------------------------------------------
(* Text handling: str.strip().lower() and SQL LOWER() on the strings the   *)
(* model feeds in.  Each string is listed with its value under the         *)
(* conversion.                                                             *)

\* the user, as str(interaction.user)
User == "fremen#0001"

\* house names carried by the buttons of a control panel
PanelNames == { "Alexin", "Harkonnen" }

\* house names typed into a slash command
HouseInputs == { "alexin", "Nope" }

\* SQL LOWER(name)
LOWER(s) ==
    CASE s = "Alexin" -> "alexin"
      [] s = "alexin" -> "alexin"
      [] s = "Argosaz" -> "argosaz"
      [] s = "Dyvets" -> "dyvets"
      [] s = "Ecaz" -> "ecaz"
      [] s = "Harkonnen" -> "harkonnen"
      [] s = "Nope" -> "nope"
      [] OTHER -> s

\* faction / alliance arguments typed into /claim_house and /set_alliance
FactionInputs == { " Atreides ", "h", "Ordos", "none" }

\* str.strip().lower()
StripLower(s) ==
    CASE s = " Atreides " -> "atreides"
      [] s = "h" -> "h"
      [] s = "Ordos" -> "ordos"
      [] s = "none" -> "none"
      [] OTHER -> s

----------------------------------------------------------------------------
(* Database functions *)

\* rows selected by WHERE LOWER(name) = LOWER(?)
Matching(t, house_name) == { n \in DOMAIN t : LOWER(n) = LOWER(house_name) }

\* get_house_data: the row found, as <<name>> or <<>> when there is none
get_house_data(t, house_name) ==
    IF Matching(t, house_name) = {} THEN << >>
    ELSE << CHOOSE n \in Matching(t, house_name) : TRUE >>

\* populate_initial_houses without its DELETE
populate_without_delete(t) ==
    [ n \in Roster \cup DOMAIN t |-> IF n \in DOMAIN t THEN t[n] ELSE DefaultRow ]

\* populate_initial_houses: DELETE the rows not in the list, then
\* INSERT OR IGNORE each name of the list
populate_initial_houses(t) ==
    [ n \in Roster |-> IF n \in DOMAIN t THEN t[n] ELSE DefaultRow ]

allowed_fields ==
    { "quest", "current_goal", "points_per_delivery", "is_locked",
      "completed_by", "notes", "desert_location", "alliance",
      "deep_desert_cp" }

\* update_house_data without the check of the field
update_any_field(t, house_name, field, value, updated_by) ==
    [ table |->
        [ n \in DOMAIN t |->
            IF n \in Matching(t, house_name)
            THEN [ t[n] EXCEPT ![field] = value,
                               !.last_updated = CURRENT_TIMESTAMP,
                               !.updated_by = updated_by ]
            ELSE t[n] ],
      success |-> Matching(t, house_name) # {} ]

\* update_house_data: the table after the call and the value returned
update_house_data(t, house_name, field, value, updated_by) ==
    IF field \notin allowed_fields
    THEN [ table |-> t, success |-> FALSE ]
    ELSE [ table |->
             [ n \in DOMAIN t |->
                 IF n \in Matching(t, house_name)
                 THEN [ t[n] EXCEPT ![field] = value,
                                    !.last_updated = CURRENT_TIMESTAMP,
                                    !.updated_by = updated_by ]
                 ELSE t[n] ],
           success |-> Matching(t, house_name) # {} ]

\* claim_house_for_alliance writing the alliance into completed_by as well
claim_sets_completed_by(t, house_name, alliance, claimed_by) ==
    [ table |->
        [ n \in DOMAIN t |->
            IF n \in Matching(t, house_name)
            THEN [ t[n] EXCEPT !.alliance = alliance,
                               !.completed_by = alliance,
                               !.last_updated = CURRENT_TIMESTAMP,
                               !.updated_by = claimed_by ]
            ELSE t[n] ],
      success |-> Matching(t, house_name) # {} ]

\* claim_house_for_alliance: the table after the call and the value returned
claim_house_for_alliance(t, house_name, alliance, claimed_by) ==
    [ table |->
        [ n \in DOMAIN t |->
            IF n \in Matching(t, house_name)
            THEN [ t[n] EXCEPT !.alliance = alliance,
                               !.last_updated = CURRENT_TIMESTAMP,
                               !.updated_by = claimed_by ]
            ELSE t[n] ],
      success |-> Matching(t, house_name) # {} ]

----------------------------------------------------------------------------
(* Deep Desert tables.  A sector id is the sequence of its characters.     *)

\* the letters of 'ABCDEFGHI' and the digits of '123456789' the model keeps
RowLetters == SubSeq(<< "A", "B", "C", "D", "E", "F", "G", "H", "I" >>,
                     1, GridSize)
ColDigits == SubSeq(<< "1", "2", "3", "4", "5", "6", "7", "8", "9" >>,
                    1, GridSize)

\* sector_id = f"{chr(65 + row)}{col}" for every row and col of the loops
Grid == { << RowLetters[r], ColDigits[c] >> : r \in 1..GridSize,
                                             c \in 1..GridSize }

\* a row of deep_desert_sectors as INSERT ... (sector_id, row_letter,
\* col_number) creates it
DefaultSector ==
    [ survey_status |-> "unsurveyed", last_surveyed |-> NULL,
      surveyed_by |-> NULL, notes |-> NULL ]

\* the table with no rows
NoSectors == [ s \in {} |-> DefaultSector ]

\* init_database_locations without OR IGNORE taken as OR REPLACE
init_locations_replace(t) ==
    [ s \in Grid \cup DOMAIN t |-> IF s \in Grid THEN DefaultSector ELSE t[s] ]

\* init_database_locations: INSERT OR IGNORE of every sector of the grid
init_database_locations(t) ==
    [ s \in Grid \cup DOMAIN t |-> IF s \in DOMAIN t THEN t[s] ELSE DefaultSector ]

----------------------------------------------------------------------------
(* The database file found at start-up.  The file outlives the process and *)
(* may come from an earlier version of the bot: it may hold a row that is  *)
(* not in the list, lack one that is, and hold a user name where an        *)
(* alliance belongs (the cases populate_initial_houses, on_ready and       *)
(* /fix_database repair).                                                  *)

\* a house in progress, claimed, with every optional column filled in
LegacyClaimed ==
    [ DefaultRow EXCEPT !.quest = "Kill", !.current_goal = 35000,
                        !.points_per_delivery = 23, !.is_locked = 0,
                        !.completed_by = ATREIDES, !.desert_location = "B4",
                        !.alliance = ATREIDES, !.deep_desert_cp = 2,
                        !.last_updated = Earlier, !.updated_by = User ]

\* a house whose alliance and completed_by hold a user name
LegacyCorrupt ==
    [ DefaultRow EXCEPT !.is_locked = 0, !.completed_by = User,
                        !.alliance = User, !.last_updated = Earlier,
                        !.updated_by = User ]

\* the names of a table of an earlier version: the last house of the roster
\* is missing and a row "Harkonnen" is present
LegacyNames == (Roster \ { AllHouses[NumHouses] }) \cup { "Harkonnen" }

\* the tables found: as populate_initial_houses leaves a new table, a
\* roster in use, a roster with user names as alliances, and a table of an
\* earlier version
LegacyTables ==
    { [ n \in Roster |-> DefaultRow ],
      [ n \in Roster |->
          IF n = AllHouses[1] THEN LegacyClaimed ELSE DefaultRow ],
      [ n \in Roster |->
          IF n = AllHouses[1] THEN LegacyCorrupt ELSE LegacyClaimed ],
      [ n \in LegacyNames |->
          IF n = AllHouses[1] THEN LegacyCorrupt ELSE LegacyClaimed ] }

----------------------------------------------------------------------------
(* Event loop *)

\* interactions are dispatched from the moment the gateway is connected,
\* which is before on_ready runs
Serving == phase \in { "connected", "ready" }

\* the loop as it would be with an await between the count and the UPDATE
\* of confirm_reset
LoopFreeAfterCount == pc \in { "idle", "reset_update" }

\* no handler stands inside a block of statements between two awaits
LoopFree == pc = "idle"

NoTx == << >>

\* the module's globals as the process sets them when it is loaded, with no
\* configuration file written yet and no message sent
InitConfig ==
    /\ SCHEDULE_CHANNEL_ID = << >>
    /\ last_schedule_channel_id = << >>
    /\ bot_config = << >>
    /\ sent = 0
    /\ printed = << >>

\* callers that may stand inside a with db_manager.get_connection() block
\* at the same time
Callers == 1..(max_connections + 1)

\* DatabaseManager.__init__: no connection is open
InitPool ==
    /\ connections = << >>
    /\ holding = [ caller \in Callers |-> << >> ]
    /\ opened = 0
    /\ closed = {}

\* the calls of update_location_reports that may be suspended at once
Tasks == 1..MaxTasks

\* the two callers of the schedule post: /post_schedule and the daily task
Posters == { "slash_post_schedule", "weekly_schedule_post" }

\* no coroutine is suspended and no map has been sent
InitAwait ==
    /\ refreshes = [ task \in Tasks |-> << >> ]
    /\ posting = [ poster \in Posters |-> << >> ]
    /\ map_view = << >>

\* the confirmation prompts of /reset_landsraad and /full_reset
Prompts == { "reset", "full" }

\* no prompt has been sent
NoPrompts == [ prompt \in Prompts |-> 0 ]

\* no report channel is configured and no report has been posted
InitReports ==
    /\ channel_config = << >>
    /\ report_messages = {}

Init ==
    /\ phase = "down"
    /\ pc = "idle"
    /\ schema \in BOOLEAN
    /\ houses \in (IF schema THEN LegacyTables ELSE { NoRows })
    /\ reset_log = << >>
    /\ tx = NoTx
    /\ claimed_count = 0
    /\ views = {}
    /\ confirm_views = {}
    /\ submitted = << >>
    /\ panel = << >>
    /\ sectors = (IF schema THEN init_database_locations(NoSectors)
                            ELSE NoSectors)
    /\ pois = << >>
    /\ sector_views = {}
    /\ clock = [ weekday |-> 0, minute |-> 0 ]
    /\ fired = FALSE
    /\ last_schedule_message_id = << >>
    /\ channel_messages = {}
    /\ InitConfig
    /\ InitReports
    /\ prompt_age = NoPrompts
    /\ fixed_count = 0
    /\ InitPool
    /\ modal_embed = << >>
    /\ InitAwait

----------------------------------------------------------------------------
(* Start-up *)

\* LandsraadBot.setup_hook: LandsraadView() reads table houses and raises
\* when the table does not exist; init_database and
\* init_database_locations create the tables that are missing
setup_hook ==
    /\ phase = "down"
    /\ phase' = IF schema THEN "connected" ELSE "failed"
    /\ sectors' = IF schema THEN init_database_locations(sectors) ELSE sectors
    /\ UNCHANGED << pc, schema, houses, reset_log, tx, claimed_count, views,
                    confirm_views, submitted, panel, pois, sector_views,
                    timer_vars,
                    report_vars, prompt_age,
                    fixed_count, pool_vars,
                    modal_embed, await_vars >>

\* the rows whose alliance is neither NULL nor one of the two alliances
invalid_alliances(t) ==
    { n \in DOMAIN t :
        t[n].alliance # NULL /\ t[n].alliance \notin { ATREIDES, HARKONNEN } }

\* UPDATE houses SET alliance = NULL WHERE alliance IS NOT NULL
\*                                   AND alliance NOT IN (?, ?)
fix_alliances(t) ==
    [ n \in DOMAIN t |->
        IF n \in invalid_alliances(t)
        THEN [ t[n] EXCEPT !.alliance = NULL ] ELSE t[n] ]

\* on_ready, first statement: populate_initial_houses() (commits)
on_ready_populate ==
    /\ phase = "connected"
    /\ LoopFree
    /\ houses' = populate_initial_houses(houses)
    /\ pc' = "ready_repair"
    /\ UNCHANGED << phase, schema, reset_log, tx, claimed_count, views,
                    confirm_views, submitted, panel,
                    map_vars, timer_vars,
                    report_vars, prompt_age,
                    fixed_count, pool_vars,
                    modal_embed, await_vars >>

\* on_ready, second statement: the repair of invalid alliances (commits)
on_ready_repair ==
    /\ pc = "ready_repair"
    /\ houses' = fix_alliances(houses)
    /\ pc' = "idle"
    /\ phase' = "ready"
    /\ UNCHANGED << schema, reset_log, tx, claimed_count, views,
                    confirm_views, submitted, panel,
                    map_vars, timer_vars,
                    report_vars, prompt_age,
                    fixed_count, pool_vars,
                    modal_embed, await_vars >>

\* the process dies: the open transaction is rolled back, the views and
\* prompts of this run no longer answer, the committed tables stay
Crash ==
    /\ phase \in { "connected", "ready" }
    /\ phase' = "down"
    /\ pc' = "idle"
    /\ tx' = NoTx
    /\ claimed_count' = 0
    /\ views' = {}
    /\ confirm_views' = {}
    /\ submitted' = << >>
    /\ sector_views' = {}
    /\ UNCHANGED << schema, houses, reset_log, panel, sectors, pois,
                    timer_vars,
                    report_vars, prompt_age,
                    fixed_count, pool_vars,
                    modal_embed, await_vars >>

----------------------------------------------------------------------------
(* House action view *)

\* Python truth value of a text column
Truthy(x) == x # NULL /\ x # ""

\* HouseActionView.__init__: the buttons that can be pressed (a disabled
\* button is left out)
HouseActionView(house_name, house_data) ==
    [ house_name |-> house_name,
      buttons |->
        IF house_data.is_locked # 0
        THEN { "unlock_house", "cancel" }
        ELSE { "update_house", "cancel" }
             \cup (IF house_data.alliance = ATREIDES
                   THEN {} ELSE { "claim_atreides" })
             \cup (IF house_data.alliance = HARKONNEN
                   THEN {} ELSE { "claim_harkonnen" })
             \cup (IF Truthy(house_data.alliance)
                   THEN { "unclaim_house" } ELSE {}) ]

\* LandsraadView.house_button_callback: a panel button is pressed
house_button_callback(house_name) ==
    /\ Serving /\ LoopFree
    /\ Cardinality(views) < MaxViews
    /\ get_house_data(houses, house_name) # << >>
    /\ views' = views \cup
         { HouseActionView(house_name,
                           houses[get_house_data(houses, house_name)[1]]) }
    /\ UNCHANGED << phase, pc, schema, houses, reset_log, tx, claimed_count,
                    confirm_views, submitted, panel,
                    map_vars, timer_vars,
                    report_vars, prompt_age,
                    fixed_count, pool_vars,
                    modal_embed, await_vars >>

\* the body shared by the three claim callbacks: on success the message is
\* edited with view=None, on failure the view stays
ClaimCallback(v, button, alliance) ==
    /\ Serving /\ LoopFree
    /\ v \in views
    /\ button \in v.buttons
    /\ LET r == claim_house_for_alliance(houses, v.house_name, alliance, User)
       IN /\ houses' = r.table
          /\ views' = IF r.success THEN views \ { v } ELSE views
    /\ UNCHANGED << phase, pc, schema, reset_log, tx, claimed_count,
                    confirm_views, submitted, panel,
                    map_vars, timer_vars,
                    report_vars, prompt_age,
                    fixed_count, pool_vars,
                    modal_embed, await_vars >>

claim_atreides_callback(v) == ClaimCallback(v, "claim_atreides", ATREIDES)

claim_harkonnen_callback(v) == ClaimCallback(v, "claim_harkonnen", HARKONNEN)

unclaim_house_callback(v) == ClaimCallback(v, "unclaim_house", NULL)

\* HouseActionView.cancel_callback, and the view's timeout of 300 seconds
cancel_callback(v) ==
    /\ Serving /\ LoopFree
    /\ v \in views
    /\ views' = views \ { v }
    /\ UNCHANGED << phase, pc, schema, houses, reset_log, tx, claimed_count,
                    confirm_views, submitted, panel,
                    map_vars, timer_vars,
                    report_vars, prompt_age,
                    fixed_count, pool_vars,
                    modal_embed, await_vars >>

----------------------------------------------------------------------------
(* House embed *)

\* int(a / b) for b > 0: the quotient with its fraction cut off
truncate(a, b) == IF a >= 0 THEN a \div b ELSE - ((- a) \div b)

\* a / b, b > 0, rounded to the nearest integer as format() rounds
nearest(a, b) ==
    LET q == a \div b
        r == a - q * b
    IN  IF 2 * r < b THEN q
        ELSE IF 2 * r > b THEN q + 1
        ELSE IF q % 2 = 0 THEN q ELSE q + 1

\* the two characters of the bar, U+2588 and U+2591, and the sign U+221E
FilledCell == "filled"

EmptyCell == "empty"

Infinite == "infinite"

\* c * n: the character n times, the empty string when n is not positive
Repeat(c, n) == [ i \in 1..n |-> c ]

\* create_progress_bar: the cells between the brackets, and the percentage
\* printed after them in tenths of a percent
create_progress_bar(current, max_val) ==
    IF max_val <= 0
    THEN [ cells |-> Repeat(EmptyCell, 20), tenths |-> 0 ]
    ELSE LET filled == IF current >= max_val THEN 20
                       ELSE truncate(current * 20, max_val)
             empty == 20 - filled
         IN  [ cells |-> Repeat(FilledCell, filled) \o Repeat(EmptyCell, empty),
               tenths |-> IF current >= max_val THEN 1000
                          ELSE nearest(current * 1000, max_val) ]

\* the Deliveries field of create_house_info_embed
deliveries_text(current, goal, ppd, alliance) ==
    IF Truthy(alliance) /\ current < goal
    THEN [ ppd |-> ppd, kind |-> "Claimed before completion", turns |-> 0 ]
    ELSE IF ppd > 0
    THEN LET remaining == IF goal - current > 0 THEN goal - current ELSE 0
             ceiling == - ((- remaining) \div ppd)
         IN  [ ppd |-> ppd, kind |-> "Turns",
               turns |-> IF ceiling > 1 THEN ceiling ELSE 1 ]
    ELSE [ ppd |-> ppd, kind |-> Infinite, turns |-> 0 ]

\* the Status field of create_house_info_embed
status_text(is_locked, alliance) ==
    IF is_locked # 0 THEN [ kind |-> "Locked", by |-> NULL ]
    ELSE IF Truthy(alliance) THEN [ kind |-> "Claimed by", by |-> alliance ]
    ELSE [ kind |-> "In Prog", by |-> NULL ]

\* create_house_info_embed: the fields computed from the row
create_house_info_embed(house_data) ==
    [ is_locked |-> house_data.is_locked,
      status |-> status_text(house_data.is_locked, house_data.alliance),
      alliance_field |-> IF Truthy(house_data.alliance)
                         THEN house_data.alliance ELSE "Unclaimed",
      current |-> house_data.current_goal,
      goal |-> house_data.goal,
      remaining |-> IF house_data.goal - house_data.current_goal > 0
                    THEN house_data.goal - house_data.current_goal ELSE 0,
      alliance |-> house_data.alliance,
      deliveries |-> deliveries_text(house_data.current_goal,
                                     house_data.goal,
                                     house_data.points_per_delivery,
                                     house_data.alliance),
      progress_bar |-> create_progress_bar(house_data.current_goal,
                                           house_data.goal) ]

\* the embed a modal answers with: house_data = get_house_data(...), embed
\* = create_house_info_embed(...); with no row the handler raises and the
\* message is not edited
shown_embed(t, house_name) ==
    IF get_house_data(t, house_name) = << >> THEN modal_embed
    ELSE << create_house_info_embed(t[get_house_data(t, house_name)[1]]) >>

----------------------------------------------------------------------------
(* Unlock modal *)

QuestInputs == { "Kill" }

\* texts typed into the Points Per Delivery field
PpdInputs == { "23", "abc" }

\* str.strip() on the texts typed into the modals
Strip(text) ==
    CASE text = " 1,500 " -> "1,500"
      [] OTHER -> text

\* str.replace(',', '')
RemoveCommas(text) ==
    CASE text = "1,500" -> "1500"
      [] OTHER -> text

\* int(text): <<value>>, or <<>> where Python raises ValueError
int(text) ==
    CASE text = "23" -> << 23 >>
      [] text = "0" -> << 0 >>
      [] text = "-5" -> << -5 >>
      [] text = "3" -> << 3 >>
      [] text = "500" -> << 500 >>
      [] text = "1500" -> << 1500 >>
      [] text = "-3500" -> << -3500 >>
      [] text = "70000" -> << GOAL_AMOUNT >>
      [] text = "70001" -> << GOAL_AMOUNT + 1 >>
      [] text = "1,500" -> << >>
      [] text = "abc" -> << >>
      [] OTHER -> << >>

\* UnlockHouseModal.on_submit up to its first update_house_data: on
\* ValueError nothing is written
unlock_on_submit(v, quest, ppd_text) ==
    /\ Serving /\ LoopFree
    /\ v \in views
    /\ "unlock_house" \in v.buttons
    /\ IF int(Strip(ppd_text)) = << >>
       THEN UNCHANGED << pc, houses, submitted >>
       ELSE /\ houses' = update_house_data(houses, v.house_name, "is_locked",
                                           0, User).table
            /\ submitted' = << [ view |-> v, quest |-> quest,
                                 ppd |-> int(Strip(ppd_text))[1] ] >>
            /\ pc' = "unlock_quest"
    /\ UNCHANGED << phase, schema, reset_log, tx, claimed_count, views,
                    confirm_views, panel,
                    map_vars, timer_vars,
                    report_vars, prompt_age,
                    fixed_count, pool_vars,
                    modal_embed, await_vars >>

\* second update_house_data of UnlockHouseModal.on_submit
unlock_set_quest ==
    /\ pc = "unlock_quest"
    /\ houses' = update_house_data(houses, submitted[1].view.house_name,
                                   "quest", submitted[1].quest, User).table
    /\ pc' = "unlock_ppd"
    /\ UNCHANGED << phase, schema, reset_log, tx, claimed_count, views,
                    confirm_views, submitted, panel,
                    map_vars, timer_vars,
                    report_vars, prompt_age,
                    fixed_count, pool_vars,
                    modal_embed, await_vars >>

\* third update_house_data of UnlockHouseModal.on_submit, then the message
\* is edited with view=None
unlock_set_ppd ==
    /\ pc = "unlock_ppd"
    /\ houses' = update_house_data(houses, submitted[1].view.house_name,
                                   "points_per_delivery", submitted[1].ppd,
                                   User).table
    /\ views' = views \ { submitted[1].view }
    /\ submitted' = << >>
    /\ pc' = "idle"
    /\ modal_embed' = shown_embed(houses', submitted[1].view.house_name)
    /\ UNCHANGED << phase, schema, reset_log, tx, claimed_count,
                    confirm_views, panel,
                    map_vars, timer_vars,
                    report_vars, prompt_age,
                    fixed_count, pool_vars, await_vars >>

----------------------------------------------------------------------------
(* Update modal *)

\* texts typed into the Current Goal Amount field
GoalInputs == { "", "500", " 1,500 ", "abc", "-5" }

\* texts typed into the Deep Desert Control Point field
CpInputs == { "", "3", "abc", "-5" }

\* one field of UpdateHouseModal.on_submit with completed_by written when
\* the progress entered reaches the goal
update_field_completing(t, house_name, field, text) ==
    IF Strip(text) = "" \/ int(RemoveCommas(Strip(text))) = << >>
    THEN t
    ELSE LET u == update_house_data(t, house_name, field,
                      int(RemoveCommas(Strip(text)))[1], User).table
         IN  [ n \in DOMAIN u |->
                 IF n \in Matching(u, house_name)
                    /\ u[n].current_goal >= u[n].goal
                 THEN [ u[n] EXCEPT !.completed_by = User ]
                 ELSE u[n] ]

\* one field of UpdateHouseModal.on_submit: a blank text and a text int()
\* refuses are passed over, any other is written
update_field(t, house_name, field, text) ==
    IF Strip(text) = "" \/ int(RemoveCommas(Strip(text))) = << >>
    THEN t
    ELSE update_house_data(t, house_name, field,
                           int(RemoveCommas(Strip(text)))[1], User).table

\* UpdateHouseModal.on_submit, the Current Goal Amount field
update_on_submit(v, goal_text, cp_text) ==
    /\ Serving /\ LoopFree
    /\ v \in views
    /\ "update_house" \in v.buttons
    /\ houses' = update_field(houses, v.house_name, "current_goal", goal_text)
    /\ submitted' = << [ view |-> v, goal_text |-> goal_text,
                         cp_text |-> cp_text ] >>
    /\ pc' = "update_cp"
    /\ UNCHANGED << phase, schema, reset_log, tx, claimed_count, views,
                    confirm_views, panel,
                    map_vars, timer_vars,
                    report_vars, prompt_age,
                    fixed_count, pool_vars,
                    modal_embed, await_vars >>

\* UpdateHouseModal.on_submit, the Deep Desert Control Point field, then
\* the message is edited with "updated!" and view=None
update_set_cp ==
    /\ pc = "update_cp"
    /\ houses' = update_field(houses, submitted[1].view.house_name,
                              "deep_desert_cp", submitted[1].cp_text)
    /\ views' = views \ { submitted[1].view }
    /\ submitted' = << >>
    /\ pc' = "idle"
    /\ modal_embed' = shown_embed(houses', submitted[1].view.house_name)
    /\ UNCHANGED << phase, schema, reset_log, tx, claimed_count,
                    confirm_views, panel,
                    map_vars, timer_vars,
                    report_vars, prompt_age,
                    fixed_count, pool_vars, await_vars >>

----------------------------------------------------------------------------
(* Slash commands on one house *)

\* what /claim_house does to the table: the faction is normalised and
\* checked, the house looked up, the claim applied
claim_house_result(t, house, faction) ==
    IF StripLower(faction) \notin { "atreides", "harkonnen", "a", "h" }
    THEN t
    ELSE IF get_house_data(t, house) = << >>
    THEN t
    ELSE claim_house_for_alliance(
             t, house,
             IF StripLower(faction) \in { "atreides", "a" }
             THEN ATREIDES ELSE HARKONNEN,
             User).table

slash_claim_house(house, faction) ==
    /\ Serving /\ LoopFree
    /\ houses' = claim_house_result(houses, house, faction)
    /\ UNCHANGED << phase, pc, schema, reset_log, tx, claimed_count, views,
                    confirm_views, submitted, panel,
                    map_vars, timer_vars,
                    report_vars, prompt_age,
                    fixed_count, pool_vars,
                    modal_embed, await_vars >>

\* /set_alliance storing whatever it is given when it is no known word
set_alliance_unchecked(t, house, alliance) ==
    IF get_house_data(t, house) = << >>
    THEN t
    ELSE IF StripLower(alliance) \in { "none", "null", "clear", "" }
    THEN update_house_data(t, house, "alliance", NULL, User).table
    ELSE IF StripLower(alliance) \in { "atreides", "a" }
    THEN update_house_data(t, house, "alliance", ATREIDES, User).table
    ELSE IF StripLower(alliance) \in { "harkonnen", "h" }
    THEN update_house_data(t, house, "alliance", HARKONNEN, User).table
    ELSE update_house_data(t, house, "alliance", alliance, User).table

\* what /set_alliance does to the table
set_alliance_result(t, house, alliance) ==
    IF get_house_data(t, house) = << >>
    THEN t
    ELSE IF StripLower(alliance) \in { "none", "null", "clear", "" }
    THEN update_house_data(t, house, "alliance", NULL, User).table
    ELSE IF StripLower(alliance) \in { "atreides", "a" }
    THEN update_house_data(t, house, "alliance", ATREIDES, User).table
    ELSE IF StripLower(alliance) \in { "harkonnen", "h" }
    THEN update_house_data(t, house, "alliance", HARKONNEN, User).table
    ELSE t

slash_set_alliance(house, alliance) ==
    /\ Serving /\ LoopFree
    /\ houses' = set_alliance_result(houses, house, alliance)
    /\ UNCHANGED << phase, pc, schema, reset_log, tx, claimed_count, views,
                    confirm_views, submitted, panel,
                    map_vars, timer_vars,
                    report_vars, prompt_age,
                    fixed_count, pool_vars,
                    modal_embed, await_vars >>

----------------------------------------------------------------------------
(* Weekly reset: /reset_landsraad and ConfirmResetView *)

\* /reset_landsraad: the prompt with Confirm Reset and Cancel is sent
\* (the number of resets explored is capped by MaxResets)
slash_reset_landsraad ==
    /\ Serving /\ LoopFree
    /\ "reset" \notin confirm_views
    /\ Len(reset_log) < MaxResets
    /\ confirm_views' = confirm_views \cup { "reset" }
    /\ prompt_age' = [ prompt_age EXCEPT !["reset"] = 0 ]
    /\ UNCHANGED << phase, pc, schema, houses, reset_log, tx, claimed_count,
                    views, submitted, panel,
                    map_vars, timer_vars,
                    report_vars,
                    fixed_count, pool_vars,
                    modal_embed, await_vars >>

\* SELECT COUNT(*) FROM houses WHERE alliance IS NOT NULL
count_claimed(t) == Cardinality({ n \in DOMAIN t : t[n].alliance # NULL })

\* the UPDATE of the reset without desert_location = NULL
reset_keeps_location(t, updated_by) ==
    [ n \in DOMAIN t |->
        [ t[n] EXCEPT !.is_locked = 1, !.current_goal = 0,
                      !.quest = "Unknown", !.completed_by = NULL,
                      !.alliance = NULL, !.deep_desert_cp = 0,
                      !.last_updated = CURRENT_TIMESTAMP,
                      !.updated_by = updated_by ] ]

\* UPDATE houses SET is_locked = 1, current_goal = 0, ... (no WHERE)
reset_houses(t, updated_by) ==
    [ n \in DOMAIN t |->
        [ t[n] EXCEPT !.is_locked = 1, !.current_goal = 0,
                      !.quest = "Unknown", !.desert_location = NULL,
                      !.completed_by = NULL, !.alliance = NULL,
                      !.deep_desert_cp = 0,
                      !.last_updated = CURRENT_TIMESTAMP,
                      !.updated_by = updated_by ] ]

\* the row INSERT INTO reset_log (reset_by, houses_reset, houses_completed)
\* VALUES (?, 25, ?) adds
reset_log_row(reset_by, count) ==
    [ reset_by |-> reset_by, houses_reset |-> 25, houses_completed |-> count ]

\* confirm_reset, first statement: the count, read outside any transaction
confirm_reset_count ==
    /\ Serving /\ LoopFree
    /\ "reset" \in confirm_views
    /\ Len(reset_log) < MaxResets
    /\ claimed_count' = count_claimed(houses)
    /\ pc' = "reset_update"
    /\ UNCHANGED << phase, schema, houses, reset_log, tx, views,
                    confirm_views, submitted, panel,
                    map_vars, timer_vars,
                    report_vars, prompt_age,
                    fixed_count, pool_vars,
                    modal_embed, await_vars >>

\* the UPDATE of confirm_reset on a connection in autocommit mode
confirm_reset_update_autocommit ==
    /\ pc = "reset_update"
    /\ houses' = reset_houses(houses, User)
    /\ tx' = << [ houses |-> reset_houses(houses, User),
                  reset_log |-> reset_log ] >>
    /\ pc' = "reset_log"
    /\ UNCHANGED << phase, schema, reset_log, claimed_count, views,
                    confirm_views, submitted, panel,
                    map_vars, timer_vars,
                    report_vars, prompt_age,
                    fixed_count, pool_vars,
                    modal_embed, await_vars >>

\* confirm_reset, second statement: the UPDATE opens the transaction
confirm_reset_update ==
    /\ pc = "reset_update"
    /\ tx' = << [ houses |-> reset_houses(houses, User),
                  reset_log |-> reset_log ] >>
    /\ pc' = "reset_log"
    /\ UNCHANGED << phase, schema, houses, reset_log, claimed_count, views,
                    confirm_views, submitted, panel,
                    map_vars, timer_vars,
                    report_vars, prompt_age,
                    fixed_count, pool_vars,
                    modal_embed, await_vars >>

\* confirm_reset, third statement: the INSERT, in the same transaction
confirm_reset_log ==
    /\ pc = "reset_log"
    /\ tx' = << [ tx[1] EXCEPT !.reset_log =
                    Append(@, reset_log_row(User, claimed_count)) ] >>
    /\ pc' = "reset_commit"
    /\ UNCHANGED << phase, schema, houses, reset_log, claimed_count, views,
                    confirm_views, submitted, panel,
                    map_vars, timer_vars,
                    report_vars, prompt_age,
                    fixed_count, pool_vars,
                    modal_embed, await_vars >>

\* confirm_reset: conn.commit()
confirm_reset_commit ==
    /\ pc = "reset_commit"
    /\ houses' = tx[1].houses
    /\ reset_log' = tx[1].reset_log
    /\ tx' = NoTx
    /\ pc' = "reset_respond"
    /\ UNCHANGED << phase, schema, claimed_count, views, confirm_views,
                    submitted, panel,
                    map_vars, timer_vars,
                    report_vars, prompt_age,
                    fixed_count, pool_vars,
                    modal_embed, await_vars >>

\* confirm_reset: await edit_message(view=None), the handler leaves the loop
confirm_reset_respond ==
    /\ pc = "reset_respond"
    /\ confirm_views' = confirm_views \ { "reset" }
    /\ claimed_count' = 0
    /\ pc' = "idle"
    /\ UNCHANGED << phase, schema, houses, reset_log, tx, views, submitted,
                    panel,
                    map_vars, timer_vars,
                    report_vars, prompt_age,
                    fixed_count, pool_vars,
                    modal_embed, await_vars >>

\* ConfirmResetView.cancel_reset, and the view's timeout of 30 seconds
cancel_reset ==
    /\ Serving /\ LoopFree
    /\ "reset" \in confirm_views
    /\ confirm_views' = confirm_views \ { "reset" }
    /\ UNCHANGED << phase, pc, schema, houses, reset_log, tx, claimed_count,
                    views, submitted, panel,
                    map_vars, timer_vars,
                    report_vars, prompt_age,
                    fixed_count, pool_vars,
                    modal_embed, await_vars >>

----------------------------------------------------------------------------
(* Full reset: /full_reset and ConfirmFullResetView *)

slash_full_reset ==
    /\ Serving /\ LoopFree
    /\ "full" \notin confirm_views
    /\ confirm_views' = confirm_views \cup { "full" }
    /\ prompt_age' = [ prompt_age EXCEPT !["full"] = 0 ]
    /\ UNCHANGED << phase, pc, schema, houses, reset_log, tx, claimed_count,
                    views, submitted, panel,
                    map_vars, timer_vars,
                    report_vars,
                    fixed_count, pool_vars,
                    modal_embed, await_vars >>

\* confirm_reset of the full reset: DROP TABLE IF EXISTS houses
full_reset_drop_houses ==
    /\ Serving /\ LoopFree
    /\ "full" \in confirm_views
    /\ schema' = FALSE
    /\ houses' = NoRows
    /\ pc' = "full_drop_rest"
    /\ UNCHANGED << phase, reset_log, tx, claimed_count, views,
                    confirm_views, submitted, panel,
                    map_vars, timer_vars,
                    report_vars, prompt_age,
                    fixed_count, pool_vars,
                    modal_embed, await_vars >>

\* the remaining DROP TABLE statements
full_reset_drop_rest ==
    /\ pc = "full_drop_rest"
    /\ reset_log' = << >>
    /\ sectors' = NoSectors
    /\ pois' = << >>
    /\ pc' = "full_init"
    /\ UNCHANGED << phase, schema, houses, tx, claimed_count, views,
                    confirm_views, submitted, panel, sector_views,
                    timer_vars,
                    report_vars, prompt_age,
                    fixed_count, pool_vars,
                    modal_embed, await_vars >>

\* init_database() and init_database_locations(): the tables are created
full_reset_init ==
    /\ pc = "full_init"
    /\ schema' = TRUE
    /\ sectors' = init_database_locations(sectors)
    /\ pc' = "full_populate"
    /\ UNCHANGED << phase, houses, reset_log, tx, claimed_count, views,
                    confirm_views, submitted, panel, pois, sector_views,
                    timer_vars,
                    report_vars, prompt_age,
                    fixed_count, pool_vars,
                    modal_embed, await_vars >>

\* populate_initial_houses(), then await edit_message(view=None)
full_reset_populate ==
    /\ pc = "full_populate"
    /\ houses' = populate_initial_houses(houses)
    /\ confirm_views' = confirm_views \ { "full" }
    /\ pc' = "idle"
    /\ UNCHANGED << phase, schema, reset_log, tx, claimed_count, views,
                    submitted, panel,
                    map_vars, timer_vars,
                    report_vars, prompt_age,
                    fixed_count, pool_vars,
                    modal_embed, await_vars >>

\* ConfirmFullResetView.cancel_reset, and the view's timeout of 30 seconds
cancel_full_reset ==
    /\ Serving /\ LoopFree
    /\ "full" \in confirm_views
    /\ confirm_views' = confirm_views \ { "full" }
    /\ UNCHANGED << phase, pc, schema, houses, reset_log, tx, claimed_count,
                    views, submitted, panel,
                    map_vars, timer_vars,
                    report_vars, prompt_age,
                    fixed_count, pool_vars,
                    modal_embed, await_vars >>

----------------------------------------------------------------------------
(* /fix_database *)

\* UPDATE houses SET completed_by = NULL WHERE completed_by IS NOT NULL
\*                                       AND completed_by NOT IN (?, ?)
fix_completed_by(t) ==
    [ n \in DOMAIN t |->
        IF t[n].completed_by # NULL
           /\ t[n].completed_by \notin { ATREIDES, HARKONNEN }
        THEN [ t[n] EXCEPT !.completed_by = NULL ] ELSE t[n] ]

\* slash_fix_database after its defer: populate_initial_houses() (commits)
fix_database_populate ==
    /\ Serving /\ LoopFree
    /\ houses' = populate_initial_houses(houses)
    /\ pc' = "fix_repair"
    /\ UNCHANGED << phase, schema, reset_log, tx, claimed_count, views,
                    confirm_views, submitted, panel,
                    map_vars, timer_vars,
                    report_vars, prompt_age,
                    fixed_count, pool_vars,
                    modal_embed, await_vars >>

\* slash_fix_database: the two repairing UPDATEs and the commit
fix_database_repair ==
    /\ pc = "fix_repair"
    /\ houses' = fix_completed_by(fix_alliances(houses))
    /\ pc' = "idle"
    /\ UNCHANGED << phase, schema, reset_log, tx, claimed_count, views,
                    confirm_views, submitted, panel,
                    map_vars, timer_vars,
                    report_vars, prompt_age,
                    fixed_count, pool_vars,
                    modal_embed, await_vars >>

----------------------------------------------------------------------------
(* Specification of the house registry *)

Next ==
    \/ setup_hook
    \/ on_ready_populate
    \/ on_ready_repair
    \/ Crash
    \/ \E house_name \in PanelNames : house_button_callback(house_name)
    \/ \E v \in views : claim_atreides_callback(v)
    \/ \E v \in views : claim_harkonnen_callback(v)
    \/ \E v \in views : unclaim_house_callback(v)
    \/ \E v \in views : cancel_callback(v)
    \/ \E v \in views, quest \in QuestInputs, ppd_text \in PpdInputs :
          unlock_on_submit(v, quest, ppd_text)
    \/ unlock_set_quest
    \/ unlock_set_ppd
    \/ \E house \in HouseInputs, faction \in FactionInputs :
          slash_claim_house(house, faction)
    \/ \E house \in HouseInputs, alliance \in FactionInputs :
          slash_set_alliance(house, alliance)
    \/ slash_reset_landsraad
    \/ confirm_reset_count
    \/ confirm_reset_update
    \/ confirm_reset_log
    \/ confirm_reset_commit
    \/ confirm_reset_respond
    \/ cancel_reset
    \/ slash_full_reset
    \/ full_reset_drop_houses
    \/ full_reset_drop_rest
    \/ full_reset_init
    \/ full_reset_populate
    \/ cancel_full_reset
    \/ fix_database_populate
    \/ fix_database_repair

Spec == Init /\ [][Next]_vars

----------------------------------------------------------------------------
(* Control panel: /landsraad *)

\* the loop body counting every house whose alliance is not None as claimed
count_house_not_none(h, counts) ==
    [ unlocked |-> counts.unlocked + (IF h.is_locked = 0 THEN 1 ELSE 0),
      claimed |-> counts.claimed + (IF h.alliance # NULL THEN 1 ELSE 0),
      atreides_count |-> counts.atreides_count
                  + (IF h.alliance = ATREIDES THEN 1 ELSE 0),
      harkonnen_count |-> counts.harkonnen_count
                  + (IF h.alliance = HARKONNEN THEN 1 ELSE 0) ]

\* the loop body of create_master_embed: one house is added to the counts
count_house(h, counts) ==
    [ unlocked |-> counts.unlocked + (IF h.is_locked = 0 THEN 1 ELSE 0),
      claimed |-> counts.claimed
                  + (IF h.alliance # NULL
                        /\ h.alliance \in { ATREIDES, HARKONNEN }
                     THEN 1 ELSE 0),
      atreides_count |-> counts.atreides_count
                  + (IF h.alliance # NULL
                        /\ h.alliance \in { ATREIDES, HARKONNEN }
                        /\ h.alliance = ATREIDES
                     THEN 1 ELSE 0),
      harkonnen_count |-> counts.harkonnen_count
                  + (IF h.alliance # NULL
                        /\ h.alliance \in { ATREIDES, HARKONNEN }
                        /\ h.alliance # ATREIDES
                        /\ h.alliance = HARKONNEN
                     THEN 1 ELSE 0) ]

RECURSIVE count_houses(_, _)
\* the loop of create_master_embed over the rows named in names
count_houses(t, names) ==
    IF names = {}
    THEN [ unlocked |-> 0, claimed |-> 0, atreides_count |-> 0,
           harkonnen_count |-> 0 ]
    ELSE LET n == CHOOSE x \in names : TRUE
         IN count_house(t[n], count_houses(t, names \ { n }))

\* create_master_embed: the four numbers of the Summary field
create_master_embed(t) == count_houses(t, DOMAIN t)

\* /landsraad: the panel is posted with the summary of the table as it is
slash_landsraad ==
    /\ Serving /\ LoopFree
    /\ panel' = << create_master_embed(houses) >>
    /\ UNCHANGED << phase, pc, schema, houses, reset_log, tx, claimed_count,
                    views, confirm_views, submitted,
                    map_vars, timer_vars,
                    report_vars, prompt_age,
                    fixed_count, pool_vars,
                    modal_embed, await_vars >>

\* alliance values a table may hold when a panel is drawn
SummaryAlliances == { NULL, ATREIDES, HARKONNEN, User, "" }

\* the tables the summary is computed for
SummaryTables ==
    [ Roster -> { [ DefaultRow EXCEPT !.is_locked = l, !.alliance = a ] :
                    l \in { 0, 1 }, a \in SummaryAlliances } ]

InitPanel ==
    /\ phase = "connected"
    /\ pc = "idle"
    /\ schema = TRUE
    /\ houses \in SummaryTables
    /\ reset_log = << >>
    /\ tx = NoTx
    /\ claimed_count = 0
    /\ views = {}
    /\ confirm_views = {}
    /\ submitted = << >>
    /\ panel = << >>
    /\ sectors = (IF schema THEN init_database_locations(NoSectors)
                            ELSE NoSectors)
    /\ pois = << >>
    /\ sector_views = {}
    /\ clock = [ weekday |-> 0, minute |-> 0 ]
    /\ fired = FALSE
    /\ last_schedule_message_id = << >>
    /\ channel_messages = {}
    /\ InitConfig
    /\ InitReports
    /\ prompt_age = NoPrompts
    /\ fixed_count = 0
    /\ InitPool
    /\ modal_embed = << >>
    /\ InitAwait

NextPanel == slash_landsraad

SpecPanel == InitPanel /\ [][NextPanel]_vars

----------------------------------------------------------------------------
(* Properties of the weekly reset *)

Valid == { ATREIDES, HARKONNEN }

\* the rows of t claimed for one of the two alliances
ValidClaims(t) == { n \in DOMAIN t : t[n].alliance \in Valid }

\* the columns the weekly reset is to return to their initial values
IsReset(h) ==
    /\ h.is_locked = 1
    /\ h.current_goal = 0
    /\ h.quest = "Unknown"
    /\ h.alliance = NULL
    /\ h.deep_desert_cp = 0
    /\ h.completed_by = NULL
    /\ h.desert_location = NULL

\* the positions of confirm_reset between its count and its commit
ResetRunning == { "reset_update", "reset_log", "reset_commit" }

\* C1: when confirm_reset has committed and before anything else runs,
\* every house is locked, at progress 0, with quest "Unknown", no alliance,
\* deep-desert CP 0, no completed_by and no desert location, whatever the
\* table held before.
C1_ResetReturnsEveryHouse ==
    pc = "reset_respond" => \A n \in DOMAIN houses : IsReset(houses[n])

\* a reset has just committed over a table in which houses were claimed
C1_Witness ==
    /\ pc = "reset_respond"
    /\ DOMAIN houses # {}
    /\ reset_log # << >>
    /\ reset_log[Len(reset_log)].houses_completed > 0

\* what C2 asks of a step
C2_LogCountsValidClaims_Step ==
    (pc = "reset_commit" /\ pc' = "reset_respond")
        => /\ Len(reset_log') = Len(reset_log) + 1
           /\ reset_log'[Len(reset_log')].houses_completed
                = Cardinality(ValidClaims(houses))

\* C2: the commit of a confirmed weekly reset adds exactly one reset-log
\* row, and its houses_completed is the number of houses whose alliance was
\* Atreides or Harkonnen just before the reset.
C2_LogCountsValidClaims == [][C2_LogCountsValidClaims_Step]_vars

\* what C3 asks of a step
C3_ResetSerialised_Step ==
    pc \in ResetRunning
        => /\ claimed_count = count_claimed(houses)
           /\ \/ houses' = houses
              \/ /\ pc = "reset_commit"
                 /\ DOMAIN houses' = DOMAIN houses
                 /\ \A n \in DOMAIN houses' : IsReset(houses'[n])

\* C3: while confirm_reset stands between its count and its commit no other
\* handler changes the table, the count it holds is the count of the table
\* it is about to overwrite, and the one change it makes resets every row
\* at once.
C3_ResetSerialised == [][C3_ResetSerialised_Step]_vars

\* a claim button is on offer to a user while confirm_reset stands between
\* its count and its UPDATE, with claimed houses counted
C3_Witness ==
    /\ pc = "reset_update"
    /\ claimed_count > 0
    /\ \E v \in views : "claim_harkonnen" \in v.buttons

\* what C4 asks of a step
C4_ResetAllOrNothing_Step ==
    pc \in ResetRunning
        => \/ houses' = houses /\ reset_log' = reset_log
           \/ /\ DOMAIN houses' = DOMAIN houses
              /\ \A n \in DOMAIN houses' : IsReset(houses'[n])
              /\ Len(reset_log') = Len(reset_log) + 1

\* C4: from the count to the commit of confirm_reset, every step, a crash
\* included, either leaves the committed houses and reset log as they are,
\* or resets all houses and adds one log row together.
C4_ResetAllOrNothing == [][C4_ResetAllOrNothing_Step]_vars

\* the UPDATE and the INSERT are done and not yet committed: the committed
\* tables still hold the houses in use and no log row
C4_Witness ==
    /\ pc = "reset_commit"
    /\ tx # NoTx
    /\ tx[1].houses # houses
    /\ Len(tx[1].reset_log) = Len(reset_log) + 1
    /\ \E n \in DOMAIN houses : ~IsReset(houses[n])

----------------------------------------------------------------------------
(* Properties of the roster *)

\* C5: populate_initial_houses applied to the table of any reachable state
\* leaves exactly the roster, keeps the row of every roster house that was
\* present, and changes nothing when applied again; the table is the roster
\* right after on_ready and /fix_database have called it.
C5_ReconcileRoster ==
    /\ LET t == populate_initial_houses(houses)
       IN /\ DOMAIN t = Roster
          /\ \A n \in DOMAIN houses \cap Roster : t[n] = houses[n]
          /\ populate_initial_houses(t) = t
    /\ pc \in { "ready_repair", "fix_repair" } => DOMAIN houses = Roster

\* on_ready has just reconciled a table that came without the last roster
\* house: that house is there with the defaults, the first house kept the
\* values it had
C5_Witness ==
    /\ pc = "ready_repair"
    /\ phase = "connected"
    /\ DOMAIN houses = Roster
    /\ houses[AllHouses[1]] = LegacyCorrupt
    /\ houses[AllHouses[NumHouses]] = DefaultRow

\* C6: whenever a user action can run, the table holds exactly the roster.
C6_AlwaysRoster ==
    (Serving /\ LoopFree) => (schema /\ DOMAIN houses = Roster)

----------------------------------------------------------------------------
(* Properties of claiming *)

\* a step of a claim or unclaim: a handler that runs in one piece gives
\* some house another alliance (the button callbacks, /claim_house and
\* /set_alliance; the resets and repairs run in several statements)
ClaimStep ==
    /\ pc = "idle" /\ pc' = "idle"
    /\ phase' = phase
    /\ \E n \in DOMAIN houses \cap DOMAIN houses' :
          houses'[n].alliance # houses[n].alliance

\* the step keeps every row and its completed_by
CompletedByKept ==
    /\ DOMAIN houses' = DOMAIN houses
    /\ \A n \in DOMAIN houses :
          houses'[n].completed_by = houses[n].completed_by

\* claim for Atreides, then for Harkonnen, then unclaim
ClaimClaimUnclaim(t, house_name) ==
    claim_house_for_alliance(
        claim_house_for_alliance(
            claim_house_for_alliance(t, house_name, ATREIDES, User).table,
            house_name, HARKONNEN, User).table,
        house_name, NULL, User).table

\* C7: for every house of the table, claiming it for Atreides, then for
\* Harkonnen, then unclaiming it leaves its alliance absent and its
\* completed_by as it was; and no claim or unclaim step changes the
\* completed_by of any house.
C7_ClaimKeepsCompletedBy ==
    /\ [](\A n \in DOMAIN houses :
            LET t == ClaimClaimUnclaim(houses, n)
            IN /\ t[n].alliance = NULL
               /\ t[n].completed_by = houses[n].completed_by)
    /\ [][ClaimStep => CompletedByKept]_vars

\* a house completed by Atreides has been claimed for Harkonnen
C7_Witness ==
    \E n \in DOMAIN houses :
        /\ houses[n].completed_by = ATREIDES
        /\ houses[n].alliance = HARKONNEN
        /\ houses[n].updated_by = User

AllValid(t) == \A n \in DOMAIN t : t[n].alliance \in Valid \cup { NULL }

\* the words that name neither alliance; "none" names the absent alliance
\* for /set_alliance only
OutsideClaimVocabulary == { "Ordos", "none" }
OutsideAllianceVocabulary == { "Ordos" }

\* C8: once every alliance is Atreides, Harkonnen or absent, every step
\* keeps it so; /claim_house and /set_alliance given a word outside the
\* vocabulary leave the table as it is.
C8_AllianceVocabularyClosed ==
    /\ [][ AllValid(houses) => AllValid(houses') ]_vars
    /\ [](\A house \in HouseInputs \cup PanelNames :
            /\ \A faction \in OutsideClaimVocabulary :
                  claim_house_result(houses, house, faction) = houses
            /\ \A alliance \in OutsideAllianceVocabulary :
                  set_alliance_result(houses, house, alliance) = houses)

\* in service with a valid table, a house has been given to Harkonnen
C8_Witness ==
    /\ phase = "ready"
    /\ AllValid(houses)
    /\ \E n \in DOMAIN houses :
          houses[n].alliance = HARKONNEN /\ houses[n].updated_by = User

\* what C9 asks of a step
C9_NoClaimOnLocked_Step ==
    phase = "ready"
    => \A n \in DOMAIN houses \cap DOMAIN houses' :
          (houses'[n].alliance \in Valid
             /\ houses'[n].alliance # houses[n].alliance)
          => houses[n].is_locked = 0

\* C9: once the bot is ready, no step gives an alliance to a house that is
\* locked when the step is taken.
C9_NoClaimOnLocked == [][C9_NoClaimOnLocked_Step]_vars

----------------------------------------------------------------------------
(* Properties of the summary *)

\* C10: the summary of a posted panel counts as claimed exactly the houses
\* whose alliance is Atreides or Harkonnen, claimed is the sum of the two
\* alliance counts, and unlocked is the number of houses whose locked flag
\* is false, also for tables that hold other alliance values.
C10_SummaryCounts ==
    panel # << >>
    => /\ panel[1].claimed = Cardinality(ValidClaims(houses))
       /\ panel[1].claimed = panel[1].atreides_count + panel[1].harkonnen_count
       /\ panel[1].atreides_count
            = Cardinality({ n \in DOMAIN houses : houses[n].alliance = ATREIDES })
       /\ panel[1].harkonnen_count
            = Cardinality({ n \in DOMAIN houses : houses[n].alliance = HARKONNEN })
       /\ panel[1].unlocked
            = Cardinality({ n \in DOMAIN houses : houses[n].is_locked = 0 })

\* a panel has been posted for a table in which a user name stands as an
\* alliance and is not counted
C10_Witness ==
    /\ panel # << >>
    /\ \E n \in DOMAIN houses : houses[n].alliance = User
    /\ panel[1].claimed < count_claimed(houses)

----------------------------------------------------------------------------
(* update_house_data on its own: a table, and calls with any field, any    *)
(* house name and a value of the column's type                             *)

\* field arguments: the columns the function accepts, and columns of the
\* table it does not
UpdateFields == allowed_fields \cup { "goal" }

\* a value of the column's type, different from what the rows hold
UpdateValue(field) ==
    IF field \in { "current_goal", "points_per_delivery", "is_locked",
                   "deep_desert_cp", "goal" }
    THEN 7
    ELSE "text"

\* rows written long ago by the bot itself
UpdateTables ==
    { [ n \in Roster |-> [ DefaultRow EXCEPT !.last_updated = Earlier ] ],
      [ n \in Roster |-> LegacyClaimed ] }

InitUpdate ==
    /\ phase = "ready"
    /\ pc = "idle"
    /\ schema = TRUE
    /\ houses \in UpdateTables
    /\ reset_log = << >>
    /\ tx = NoTx
    /\ claimed_count = 0
    /\ views = {}
    /\ confirm_views = {}
    /\ submitted = << >>
    /\ panel = << >>
    /\ sectors = (IF schema THEN init_database_locations(NoSectors)
                            ELSE NoSectors)
    /\ pois = << >>
    /\ sector_views = {}
    /\ clock = [ weekday |-> 0, minute |-> 0 ]
    /\ fired = FALSE
    /\ last_schedule_message_id = << >>
    /\ channel_messages = {}
    /\ InitConfig
    /\ InitReports
    /\ prompt_age = NoPrompts
    /\ fixed_count = 0
    /\ InitPool
    /\ modal_embed = << >>
    /\ InitAwait

\* one call of update_house_data
update_house_data_call(house_name, field) ==
    /\ houses' = update_house_data(houses, house_name, field,
                                   UpdateValue(field), User).table
    /\ UNCHANGED << phase, pc, schema, reset_log, tx, claimed_count, views,
                    confirm_views, submitted, panel,
                    map_vars, timer_vars,
                    report_vars, prompt_age,
                    fixed_count, pool_vars,
                    modal_embed, await_vars >>

NextUpdate ==
    \E house_name \in HouseInputs, field \in UpdateFields :
        update_house_data_call(house_name, field)

SpecUpdate == InitUpdate /\ [][NextUpdate]_vars

\* the nine fields updateField may change
MutableFields ==
    { "quest", "current_goal", "points_per_delivery", "is_locked",
      "completed_by", "notes", "desert_location", "alliance",
      "deep_desert_cp" }

\* the columns of a row
Columns == DOMAIN DefaultRow

\* the rows of t that differ from the rows of the same name in u
Changed(t, u) == { n \in DOMAIN t : t[n] # u[n] }

\* C11: a call of update_house_data with a field outside the nine or a
\* house name that matches no row returns failure and leaves every row as
\* it was, time and author of the last update included; any other call
\* returns success and changes, in the one matching row only, the named
\* field, last_updated and updated_by.
C11_UpdateFieldWhitelist ==
    \A house_name \in HouseInputs, field \in UpdateFields :
        LET r == update_house_data(houses, house_name, field,
                                   UpdateValue(field), User)
        IN  /\ DOMAIN r.table = DOMAIN houses
            /\ IF field \notin MutableFields
                  \/ \A n \in DOMAIN houses : LOWER(n) # LOWER(house_name)
               THEN r.success = FALSE /\ r.table = houses
               ELSE /\ r.success = TRUE
                    /\ Cardinality(Changed(r.table, houses)) <= 1
                    /\ \A n \in DOMAIN houses :
                         IF LOWER(n) = LOWER(house_name)
                         THEN /\ r.table[n][field] = UpdateValue(field)
                              /\ r.table[n].last_updated = CURRENT_TIMESTAMP
                              /\ r.table[n].updated_by = User
                              /\ \A c \in Columns \ { field, "last_updated",
                                                      "updated_by" } :
                                   r.table[n][c] = houses[n][c]
                         ELSE r.table[n] = houses[n]

\* calls have succeeded on one house and left the other as it was before
C11_Witness ==
    /\ houses[AllHouses[1]].notes = "text"
    /\ houses[AllHouses[1]].updated_by = User
    /\ houses[AllHouses[1]].last_updated = CURRENT_TIMESTAMP
    /\ houses[AllHouses[1]].goal = GOAL_AMOUNT
    /\ houses[AllHouses[2]].last_updated = Earlier

----------------------------------------------------------------------------
(* The two modals of a house action view on their own: the bot is ready,   *)
(* the table holds the roster, and users open action views and submit the  *)
(* Unlock and Update modals with any of the texts below                    *)

\* texts typed into the Points Per Delivery field, numbers below 1 included
UnlockPpdInputs == PpdInputs \cup { "0", "-5" }

\* the roster as created, and the roster with its first house in progress
ModalTables ==
    { [ n \in Roster |-> DefaultRow ],
      [ n \in Roster |->
          IF n = AllHouses[1] THEN LegacyClaimed ELSE DefaultRow ] }

InitModal ==
    /\ phase = "ready"
    /\ pc = "idle"
    /\ schema = TRUE
    /\ houses \in ModalTables
    /\ reset_log = << >>
    /\ tx = NoTx
    /\ claimed_count = 0
    /\ views = {}
    /\ confirm_views = {}
    /\ submitted = << >>
    /\ panel = << >>
    /\ sectors = (IF schema THEN init_database_locations(NoSectors)
                            ELSE NoSectors)
    /\ pois = << >>
    /\ sector_views = {}
    /\ clock = [ weekday |-> 0, minute |-> 0 ]
    /\ fired = FALSE
    /\ last_schedule_message_id = << >>
    /\ channel_messages = {}
    /\ InitConfig
    /\ InitReports
    /\ prompt_age = NoPrompts
    /\ fixed_count = 0
    /\ InitPool
    /\ modal_embed = << >>
    /\ InitAwait

NextModal ==
    \/ \E house_name \in PanelNames : house_button_callback(house_name)
    \/ \E v \in views : cancel_callback(v)
    \/ \E v \in views, quest \in QuestInputs, ppd_text \in UnlockPpdInputs :
          unlock_on_submit(v, quest, ppd_text)
    \/ unlock_set_quest
    \/ unlock_set_ppd
    \/ \E v \in views, goal_text \in GoalInputs, cp_text \in CpInputs :
          update_on_submit(v, goal_text, cp_text)
    \/ update_set_cp

SpecModal == InitModal /\ [][NextModal]_vars

\* what C12 asks of a step: a house's locked flag is cleared only by a
\* submission whose points per delivery is a positive integer
C12_UnlockNeedsPositivePpd_Step ==
    \A n \in DOMAIN houses \cap DOMAIN houses' :
        (houses[n].is_locked # 0 /\ houses'[n].is_locked = 0)
        => /\ submitted' # << >>
           /\ submitted'[1].ppd >= 1

\* C12: an Unlock submitted with a points-per-delivery that is not a
\* positive integer leaves the house locked, and every house's
\* points_per_delivery is a positive integer in every reachable state.
C12_UnlockNeedsPositivePpd ==
    /\ [](\A n \in DOMAIN houses : houses[n].points_per_delivery >= 1)
    /\ [][C12_UnlockNeedsPositivePpd_Step]_vars

\* texts of the update modal that are no number
NonNumeric == { "abc" }

\* what C13 asks of a step: while a submission of the update modal that
\* holds a text that is no number is handled, no row is written
C13_UpdateAllOrNothing_Step ==
    /\ (pc = "idle" /\ pc' = "update_cp"
          /\ (submitted'[1].goal_text \in NonNumeric
                \/ submitted'[1].cp_text \in NonNumeric))
       => houses' = houses
    /\ (pc = "update_cp" /\ pc' = "idle"
          /\ (submitted[1].goal_text \in NonNumeric
                \/ submitted[1].cp_text \in NonNumeric))
       => houses' = houses

\* C13: an update submitted with a text that is no number in either field
\* changes nothing: the other field, though valid, is not written.
C13_UpdateAllOrNothing == [][C13_UpdateAllOrNothing_Step]_vars

\* C14: in every reachable state the progress and the deep-desert control
\* points of every house are non-negative.
C14_NonNegative ==
    \A n \in DOMAIN houses :
        houses[n].current_goal >= 0 /\ houses[n].deep_desert_cp >= 0

----------------------------------------------------------------------------
(* The weekly reset against a newly created row *)

\* C15: when a weekly reset has been committed while the bot is ready,
\* every row equals a newly created row in every column but last_updated
\* and updated_by; in particular points_per_delivery, notes and goal hold
\* their defaults.
C15_ResetEqualsFresh ==
    (phase = "ready" /\ pc = "reset_respond")
    => \A n \in DOMAIN houses :
          \A c \in DOMAIN DefaultRow \ { "last_updated", "updated_by" } :
              houses[n][c] = DefaultRow[c]

----------------------------------------------------------------------------
(* Deep Desert map: sectors, points of interest and the handlers that      *)
(* write them                                                              *)

\* sector arguments typed into /sector and /quickadd, character by character
SectorInputs ==
    { << "a", "1" >>, << "B", "2" >>, << "J", "1" >>, << "A", "0" >>,
      << "A", "1", "0" >>, << >> }

\* str.upper() on one character
UpperChar(c) ==
    CASE c = "a" -> "A"
      [] c = "b" -> "B"
      [] c = "j" -> "J"
      [] OTHER -> c

\* str.upper()
upper(s) == [ i \in 1..Len(s) |-> UpperChar(s[i]) ]

\* the elements of a sequence
Chars(s) == { s[i] : i \in 1..Len(s) }

\* not (len(sector) != 2 or sector[0] not in 'ABCDEFGHI'
\*      or sector[1] not in '123456789')
valid_sector(sector) ==
    IF Len(sector) # 2 THEN FALSE
    ELSE sector[1] \in Chars(RowLetters) /\ sector[2] \in Chars(ColDigits)

\* location_type arguments typed into /quickadd
LocationTypeInputs == { "Base", "spice", "landsraad", "resource", "cave" }

\* str.lower() on the location types
lower(s) ==
    CASE s = "Base" -> "base"
      [] OTHER -> s

\* sector buttons of the map that users press
MapButtons == { << "A", "1" >>, << "B", "2" >> }

\* the four location tables
LocationTables ==
    { "guild_bases", "spice_locations", "landsraad_points",
      "resource_locations" }

\* INSERT INTO <table> (sector_id, ...)
insert_poi(p, table, sector_id) ==
    Append(p, [ table |-> table, sector_id |-> sector_id,
                discovered_by |-> User ])

\* UPDATE deep_desert_sectors SET survey_status = 'partial' WHERE
\* sector_id = ?, whatever the status was
set_partial(t, sector_id) ==
    [ s \in DOMAIN t |->
        IF s = sector_id
        THEN [ t[s] EXCEPT !.survey_status = "partial" ]
        ELSE t[s] ]

\* UPDATE deep_desert_sectors SET survey_status = CASE WHEN survey_status =
\* 'unsurveyed' THEN 'partial' ELSE survey_status END WHERE sector_id = ?
advance_to_partial(t, sector_id) ==
    [ s \in DOMAIN t |->
        IF s = sector_id /\ t[s].survey_status = "unsurveyed"
        THEN [ t[s] EXCEPT !.survey_status = "partial" ]
        ELSE t[s] ]

\* UPDATE deep_desert_sectors SET survey_status = 'complete', last_surveyed
\* = CURRENT_TIMESTAMP, surveyed_by = ? WHERE sector_id = ?
mark_complete(t, sector_id, surveyed_by) ==
    [ s \in DOMAIN t |->
        IF s = sector_id
        THEN [ t[s] EXCEPT !.survey_status = "complete",
                           !.last_surveyed = CURRENT_TIMESTAMP,
                           !.surveyed_by = surveyed_by ]
        ELSE t[s] ]

\* range(a, b) of Python as a sequence
range(a, b) == [ i \in 1..(b - a) |-> a + i - 1 ]

\* the buttons create_sector_buttons adds for the rows of one page, in
\* order: five to a row of the grid, each placed in row (row - start_row)
\* % 5 of the view
RECURSIVE sector_buttons(_, _)
sector_buttons(start_row, rows) ==
    IF rows = << >> THEN << >>
    ELSE [ col \in 1..5 |->
             [ kind |-> "sector", row |-> (rows[1] - start_row) % 5 ] ]
         \o sector_buttons(start_row, Tail(rows))

\* DeepDesertMapView.create_sector_buttons: the items handed to add_item,
\* the sector buttons first, then Previous and Next, both in row 4
create_sector_buttons(start_row) ==
    sector_buttons(start_row,
                   range(start_row,
                         IF start_row + 5 < 9 THEN start_row + 5 ELSE 9))
    \o (IF start_row > 0
        THEN << [ kind |-> "prev_page", row |-> 4 ] >> ELSE << >>)
    \o (IF start_row + 5 < 9
        THEN << [ kind |-> "next_page", row |-> 4 ] >> ELSE << >>)

\* DeepDesertMapView(start_row): the view with its items
DeepDesertMapView(start_row) ==
    [ start_row |-> start_row, children |-> create_sector_buttons(start_row) ]

\* /deepdesert: init_database_locations(), then the map is sent with
\* DeepDesertMapView(start_row=0)
slash_deepdesert ==
    /\ Serving /\ LoopFree
    /\ sectors' = init_database_locations(sectors)
    /\ map_view' = << DeepDesertMapView(0) >>
    /\ UNCHANGED << phase, pc, schema, houses, reset_log, tx, claimed_count,
                    views, confirm_views, submitted, panel, pois,
                    sector_views,
                    timer_vars,
                    report_vars, prompt_age,
                    fixed_count, pool_vars,
                    modal_embed, refreshes, posting >>

\* DeepDesertMapView.next_page: start_row = min(start_row + 5, 4), the
\* items are cleared and created again
next_page ==
    /\ Serving /\ LoopFree
    /\ map_view # << >>
    /\ \E i \in DOMAIN map_view[1].children :
          map_view[1].children[i].kind = "next_page"
    /\ map_view' =
         << DeepDesertMapView(IF map_view[1].start_row + 5 < 4
                              THEN map_view[1].start_row + 5 ELSE 4) >>
    /\ UNCHANGED << phase, pc, schema, houses, reset_log, tx, claimed_count,
                    views, confirm_views, submitted, panel, map_vars,
                    timer_vars, report_vars, prompt_age, fixed_count,
                    pool_vars, modal_embed, refreshes, posting >>

\* DeepDesertMapView.prev_page: start_row = max(start_row - 5, 0), the
\* items are cleared and created again
prev_page ==
    /\ Serving /\ LoopFree
    /\ map_view # << >>
    /\ \E i \in DOMAIN map_view[1].children :
          map_view[1].children[i].kind = "prev_page"
    /\ map_view' =
         << DeepDesertMapView(IF map_view[1].start_row - 5 > 0
                              THEN map_view[1].start_row - 5 ELSE 0) >>
    /\ UNCHANGED << phase, pc, schema, houses, reset_log, tx, claimed_count,
                    views, confirm_views, submitted, panel, map_vars,
                    timer_vars, report_vars, prompt_age, fixed_count,
                    pool_vars, modal_embed, refreshes, posting >>

\* DeepDesertMapView.sector_callback: a SectorDetailView is sent
sector_callback(sector_id) ==
    /\ Serving /\ LoopFree
    /\ Cardinality(sector_views) < MaxSectorViews
    /\ sector_views' = sector_views \cup { sector_id }
    /\ UNCHANGED << phase, pc, schema, houses, reset_log, tx, claimed_count,
                    views, confirm_views, submitted, panel, sectors, pois,
                    timer_vars,
                    report_vars, prompt_age,
                    fixed_count, pool_vars,
                    modal_embed, await_vars >>

\* the SectorDetailViews after /sector
sector_result(sv, sector) ==
    IF valid_sector(upper(sector)) THEN sv \cup { upper(sector) } ELSE sv

\* /sector
slash_sector(sector) ==
    /\ Serving /\ LoopFree
    /\ Cardinality(sector_views) < MaxSectorViews
    /\ sector_views' = sector_result(sector_views, sector)
    /\ UNCHANGED << phase, pc, schema, houses, reset_log, tx, claimed_count,
                    views, confirm_views, submitted, panel, sectors, pois,
                    timer_vars,
                    report_vars, prompt_age,
                    fixed_count, pool_vars,
                    modal_embed, await_vars >>

\* the guilds the bot is in, by id
Guilds == 1..NumGuilds

\* the guild a text channel belongs to
channel_guild(channel) == ((channel - 1) % NumGuilds) + 1

\* INSERT OR REPLACE INTO channel_config (config_name, channel_id,
\* guild_id): config_name is the primary key of the table, so the row of
\* that name is deleted, whatever its guild, and the new row is added with
\* message_id NULL
replace_config(config, config_name, channel_id, guild_id) ==
    SelectSeq(config, LAMBDA row : row.config_name # config_name)
      \o << [ config_name |-> config_name, channel_id |-> channel_id,
              message_id |-> << >>, guild_id |-> guild_id ] >>

\* the report of row i stands in its channel
report_stands(config, messages, i) ==
    /\ config[i].message_id # << >>
    /\ [ id |-> config[i].message_id[1],
         channel |-> config[i].channel_id ] \in messages

\* the loop of update_location_reports from row i on, with a report sent
\* for every row, tracked or not
RECURSIVE repost_rows(_, _, _, _, _)
repost_rows(config, messages, n, guild_id, i) ==
    IF i > Len(config)
    THEN [ channel_config |-> config, report_messages |-> messages,
           sent |-> n ]
    ELSE IF config[i].guild_id # guild_id
            \/ channel_guild(config[i].channel_id) # guild_id
    THEN repost_rows(config, messages, n, guild_id, i + 1)
    ELSE repost_rows(
             [ config EXCEPT ![i].message_id = << n + 1 >> ],
             messages \cup { [ id |-> n + 1,
                               channel |-> config[i].channel_id ] },
             n + 1, guild_id, i + 1)

\* the loop of update_location_reports from row i on: rows of another
\* guild are not selected and a row whose channel the guild does not have
\* is skipped; a report that stands is edited; where none is tracked or
\* the tracked one cannot be fetched a report is sent and the row updated
\* with its id.  n counts the messages sent.
RECURSIVE refresh_rows(_, _, _, _, _)
refresh_rows(config, messages, n, guild_id, i) ==
    IF i > Len(config)
    THEN [ channel_config |-> config, report_messages |-> messages,
           sent |-> n ]
    ELSE IF config[i].guild_id # guild_id
            \/ channel_guild(config[i].channel_id) # guild_id
    THEN refresh_rows(config, messages, n, guild_id, i + 1)
    ELSE IF report_stands(config, messages, i)
    THEN refresh_rows(config, messages, n, guild_id, i + 1)
    ELSE refresh_rows(
             [ config EXCEPT ![i].message_id = << n + 1 >> ],
             messages \cup { [ id |-> n + 1,
                               channel |-> config[i].channel_id ] },
             n + 1, guild_id, i + 1)

\* update_location_reports with a new report sent at every call
update_reposting(config, messages, n, guild_id) ==
    repost_rows(config, messages, n, guild_id, 1)

\* update_location_reports: the table, the reports that exist and the
\* number of messages sent, after the call
update_location_reports(config, messages, n, guild_id) ==
    refresh_rows(config, messages, n, guild_id, 1)

\* on_submit of an add modal: INSERT INTO the modal's table, commit, and
\* the reports of the guild are refreshed
AddModal_on_submit(sector_id, table) ==
    /\ Serving /\ LoopFree
    /\ sector_id \in sector_views
    /\ Len(pois) < MaxPois
    /\ pois' = insert_poi(pois, table, sector_id)
    /\ \E guild_id \in Guilds :
         LET refreshed == update_location_reports(
                              channel_config, report_messages, sent, guild_id)
         IN  /\ refreshed.sent <= MaxPosts
             /\ channel_config' = refreshed.channel_config
             /\ report_messages' = refreshed.report_messages
             /\ sent' = refreshed.sent
    /\ UNCHANGED << phase, pc, schema, houses, reset_log, tx, claimed_count,
                    views, confirm_views, submitted, panel, sectors,
                    sector_views, clock, fired, last_schedule_message_id,
                    channel_messages, SCHEDULE_CHANNEL_ID,
                    last_schedule_channel_id, bot_config, printed, prompt_age,
                    fixed_count, pool_vars,
                    modal_embed, await_vars >>

AddGuildBaseModal_on_submit(sector_id) ==
    AddModal_on_submit(sector_id, "guild_bases")

AddSpiceModal_on_submit(sector_id) ==
    AddModal_on_submit(sector_id, "spice_locations")

AddLandsraadModal_on_submit(sector_id) ==
    AddModal_on_submit(sector_id, "landsraad_points")

AddResourceModal_on_submit(sector_id) ==
    AddModal_on_submit(sector_id, "resource_locations")

\* SectorDetailView.mark_surveyed_callback
mark_surveyed_callback(sector_id) ==
    /\ Serving /\ LoopFree
    /\ sector_id \in sector_views
    /\ sectors' = mark_complete(sectors, sector_id, User)
    /\ UNCHANGED << phase, pc, schema, houses, reset_log, tx, claimed_count,
                    views, confirm_views, submitted, panel, pois,
                    sector_views,
                    timer_vars,
                    report_vars, prompt_age,
                    fixed_count, pool_vars,
                    modal_embed, await_vars >>

\* the timeout of 300 seconds of a SectorDetailView
sector_view_timeout(sector_id) ==
    /\ Serving /\ LoopFree
    /\ sector_id \in sector_views
    /\ sector_views' = sector_views \ { sector_id }
    /\ UNCHANGED << phase, pc, schema, houses, reset_log, tx, claimed_count,
                    views, confirm_views, submitted, panel, sectors, pois,
                    timer_vars,
                    report_vars, prompt_age,
                    fixed_count, pool_vars,
                    modal_embed, await_vars >>

\* /quickadd with the check of the sector left out
quickadd_unchecked(t, p, sector, location_type) ==
    IF lower(location_type)
         \notin { "base", "spice", "landsraad", "resource" }
    THEN [ sectors |-> t, pois |-> p ]
    ELSE IF lower(location_type) = "landsraad"
    THEN [ sectors |-> t, pois |-> p ]
    ELSE [ sectors |-> advance_to_partial(t, upper(sector)),
           pois |-> insert_poi(p,
                      CASE lower(location_type) = "base" -> "guild_bases"
                        [] lower(location_type) = "spice" -> "spice_locations"
                        [] OTHER -> "resource_locations",
                      upper(sector)) ]

\* what /quickadd commits.  The INSERT for 'landsraad' names a column
\* discovered_by that landsraad_points does not have: the statement raises
\* and nothing is committed.
quickadd_result(t, p, sector, location_type) ==
    IF ~ valid_sector(upper(sector))
    THEN [ sectors |-> t, pois |-> p ]
    ELSE IF lower(location_type)
              \notin { "base", "spice", "landsraad", "resource" }
    THEN [ sectors |-> t, pois |-> p ]
    ELSE IF lower(location_type) = "landsraad"
    THEN [ sectors |-> t, pois |-> p ]
    ELSE [ sectors |-> advance_to_partial(t, upper(sector)),
           pois |-> insert_poi(p,
                      CASE lower(location_type) = "base" -> "guild_bases"
                        [] lower(location_type) = "spice" -> "spice_locations"
                        [] OTHER -> "resource_locations",
                      upper(sector)) ]

\* /quickadd
slash_quickadd(sector, location_type) ==
    /\ Serving /\ LoopFree
    /\ Len(pois) < MaxPois
    /\ sectors' = quickadd_result(sectors, pois, sector, location_type).sectors
    /\ pois' = quickadd_result(sectors, pois, sector, location_type).pois
    /\ UNCHANGED << phase, pc, schema, houses, reset_log, tx, claimed_count,
                    views, confirm_views, submitted, panel, sector_views,
                    timer_vars,
                    report_vars, prompt_age,
                    fixed_count, pool_vars,
                    modal_embed, await_vars >>

\* the grid as created, and a grid in use
MapTables ==
    { init_database_locations(NoSectors),
      [ s \in Grid |->
          IF s = << "A", "1" >>
          THEN [ DefaultSector EXCEPT !.survey_status = "complete",
                                      !.last_surveyed = Earlier,
                                      !.surveyed_by = User,
                                      !.notes = "worm sign" ]
          ELSE DefaultSector ] }

InitMap ==
    /\ phase = "ready"
    /\ pc = "idle"
    /\ schema = TRUE
    /\ houses = [ n \in Roster |-> DefaultRow ]
    /\ reset_log = << >>
    /\ tx = NoTx
    /\ claimed_count = 0
    /\ views = {}
    /\ confirm_views = {}
    /\ submitted = << >>
    /\ panel = << >>
    /\ sectors \in MapTables
    /\ pois = << >>
    /\ sector_views = {}
    /\ clock = [ weekday |-> 0, minute |-> 0 ]
    /\ fired = FALSE
    /\ last_schedule_message_id = << >>
    /\ channel_messages = {}
    /\ InitConfig
    /\ InitReports
    /\ prompt_age = NoPrompts
    /\ fixed_count = 0
    /\ InitPool
    /\ modal_embed = << >>
    /\ InitAwait

NextMap ==
    \/ slash_deepdesert
    \/ \E sector_id \in MapButtons : sector_callback(sector_id)
    \/ \E sector \in SectorInputs : slash_sector(sector)
    \/ \E sector_id \in sector_views : AddGuildBaseModal_on_submit(sector_id)
    \/ \E sector_id \in sector_views : AddSpiceModal_on_submit(sector_id)
    \/ \E sector_id \in sector_views : AddLandsraadModal_on_submit(sector_id)
    \/ \E sector_id \in sector_views : AddResourceModal_on_submit(sector_id)
    \/ \E sector_id \in sector_views : mark_surveyed_callback(sector_id)
    \/ \E sector_id \in sector_views : sector_view_timeout(sector_id)
    \/ \E sector \in SectorInputs, location_type \in LocationTypeInputs :
          slash_quickadd(sector, location_type)

SpecMap == InitMap /\ [][NextMap]_vars

\* what C16 asks of a step: a step that adds a point of interest leaves the
\* sector partial when it was unsurveyed, and as it was otherwise
C16_AddAdvancesSurvey_Step ==
    Len(pois') = Len(pois) + 1
    => LET s == pois'[Len(pois')].sector_id
       IN  s \in DOMAIN sectors
           => sectors'[s].survey_status
                = IF sectors[s].survey_status = "unsurveyed"
                  THEN "partial"
                  ELSE sectors[s].survey_status

\* C16: adding a point of interest, through any of the four forms or
\* /quickadd, advances an unsurveyed sector to partial and leaves the
\* status of a partial or complete sector unchanged.
C16_AddAdvancesSurvey == [][C16_AddAdvancesSurvey_Step]_vars

\* the 81 cells of the grid: a letter A-I and a digit 1-9
Cells ==
    { << l, d >> : l \in { "A", "B", "C", "D", "E", "F", "G", "H", "I" },
                   d \in { "1", "2", "3", "4", "5", "6", "7", "8", "9" } }

\* C17: /sector and /quickadd given an identifier that is no cell of the
\* grid open no view and write nothing; no sector row, no point of
\* interest and no sector view, through which forms and Mark Surveyed
\* write, names a sector outside the grid.
C17_SectorIdsInGrid ==
    /\ DOMAIN sectors \subseteq Cells
    /\ sector_views \subseteq Cells
    /\ \A i \in 1..Len(pois) : pois[i].sector_id \in Cells
    /\ \A sector \in SectorInputs :
          upper(sector) \notin Cells
          => /\ sector_result(sector_views, sector) = sector_views
             /\ \A location_type \in LocationTypeInputs :
                   quickadd_result(sectors, pois, sector, location_type)
                     = [ sectors |-> sectors, pois |-> pois ]

\* points of interest have been added by /quickadd and by a form, and a
\* sector has been marked surveyed through a view
C17_Witness ==
    /\ Len(pois) = MaxPois
    /\ \E i, j \in 1..Len(pois) :
          /\ pois[i].sector_id = << "A", "1" >>
          /\ pois[j].table = "landsraad_points"
    /\ sectors[<< "B", "2" >>].survey_status = "complete"

\* the table t without the rows of the sectors in gone
Without(t, gone) == [ s \in DOMAIN t \ gone |-> t[s] ]

\* the sectors table, and the same table with one row or all rows missing
Partly ==
    { sectors, NoSectors } \cup { Without(sectors, { s }) : s \in DOMAIN sectors }

\* C18: init_database_locations leaves exactly the rows of the grid, keeps
\* the survey status, surveyor, time and notes of every row that exists,
\* and a second call changes nothing.
C18_InitGridIdempotent ==
    \A t \in Partly :
        LET once == init_database_locations(t)
        IN  /\ DOMAIN once = Grid
            /\ Cardinality(DOMAIN once) = GridSize * GridSize
            /\ \A s \in DOMAIN t : once[s] = t[s]
            /\ init_database_locations(once) = once

\* the grid holds a sector marked surveyed by a user and a sector with
\* notes when init_database_locations runs
C18_Witness ==
    /\ sectors[<< "A", "1" >>].notes = "worm sign"
    /\ sectors[<< "B", "2" >>].surveyed_by = User
    /\ sectors[<< "B", "2" >>].last_surveyed = CURRENT_TIMESTAMP
    /\ ENABLED slash_deepdesert

----------------------------------------------------------------------------
(* The clock, get_next_weekday and the daily task weekly_schedule_post.    *)
(* A time is a weekday (0 = Monday) and a minute of the day.               *)

\* the minutes of a day the clock stops at: 0:00, 3:00, 17:00 and 18:00
DayMinutes == << 0, 180, 1020, 1080 >>

\* the target times the program asks for, as (hour, minute): the daily
\* task's 3:00, Monday 17:00 and Saturday 18:00
TargetTimes == { << 3, 0 >>, << 17, 0 >>, << 18, 0 >> }

\* get_next_weekday with now > target_time where the code has now >=
next_weekday_after(now, target_weekday, target_hour, target_minute) ==
    LET diff == target_weekday - now.weekday
        days_ahead ==
            IF diff < 0 THEN diff + 7
            ELSE IF diff = 0
                    /\ now.minute > target_hour * 60 + target_minute
            THEN 7
            ELSE diff
    IN  [ days_ahead |-> days_ahead,
          weekday |-> (now.weekday + days_ahead) % 7,
          minute |-> target_hour * 60 + target_minute ]

\* get_next_weekday: the datetime returned, as the number of days from
\* today, the weekday and the minute of the day
get_next_weekday(now, target_weekday, target_hour, target_minute) ==
    LET diff == target_weekday - now.weekday
        days_ahead ==
            IF diff < 0 THEN diff + 7
            ELSE IF diff = 0
                    /\ now.minute >= target_hour * 60 + target_minute
            THEN 7
            ELSE diff
    IN  [ days_ahead |-> days_ahead,
          weekday |-> (now.weekday + days_ahead) % 7,
          minute |-> target_hour * 60 + target_minute ]

\* time passes to the next minute the clock stops at
Tick ==
    /\ clock' =
         IF \E i \in 1..(Len(DayMinutes) - 1) : DayMinutes[i] = clock.minute
         THEN [ clock EXCEPT !.minute =
                  DayMinutes[(CHOOSE i \in 1..Len(DayMinutes) :
                                 DayMinutes[i] = clock.minute) + 1] ]
         ELSE [ weekday |-> (clock.weekday + 1) % 7,
                minute |-> DayMinutes[1] ]
    /\ fired' = FALSE
    /\ UNCHANGED << phase, pc, schema, houses, reset_log, tx, claimed_count,
                    views, confirm_views, submitted, panel, map_vars,
                    last_schedule_message_id, channel_messages, config_vars,
                    report_vars, prompt_age,
                    fixed_count, pool_vars,
                    modal_embed, await_vars >>

\* text channels of the guilds, by id
Channels == 1..NumChannels

\* channel.name: the first channel is called "schedule", the others
\* "general"
channel_name(c) == IF c = 1 THEN "schedule" ELSE "general"

\* the names weekly_schedule_post looks for when no channel is set
ScheduleNames == { "weeklyschedule", "weekly-schedule", "schedule",
                   "bot-schedule" }

\* the channel weekly_schedule_post posts to: the one set by
\* /set_schedule_channel if the guild has it, else the first one with a
\* schedule name; <<>> when there is neither
target_channel ==
    IF SCHEDULE_CHANNEL_ID # << >> /\ SCHEDULE_CHANNEL_ID[1] \in Channels
    THEN SCHEDULE_CHANNEL_ID
    ELSE IF \E c \in Channels : lower(channel_name(c)) \in ScheduleNames
         THEN << CHOOSE c \in Channels :
                    /\ lower(channel_name(c)) \in ScheduleNames
                    /\ \A d \in Channels :
                          lower(channel_name(d)) \in ScheduleNames => c <= d >>
         ELSE << >>

\* the numbers the configuration file may hold: channel and message ids
JsonNumbers == 0..(NumChannels + MaxPosts)

\* json.dump of one value of the configuration: None is written as null,
\* an int in decimal digits
json_dump(value) == IF value = << >> THEN "null" ELSE ToString(value[1])

\* json.load of one value: null is read as None, digits as an int
json_load(text) ==
    IF text = "null" THEN << >>
    ELSE << CHOOSE n \in JsonNumbers : ToString(n) = text >>

\* save_bot_config: the three globals as written to data/bot_config.json,
\* kept as json.load reads the file
saved_config(schedule_channel_id, message_id, channel_id) ==
    << [ schedule_channel_id |-> json_load(json_dump(schedule_channel_id)),
         last_schedule_message_id |-> json_load(json_dump(message_id)),
         last_schedule_channel_id |-> json_load(json_dump(channel_id)) ] >>

\* the test of weekly_schedule_post for every weekday
any_weekday(now) == TRUE

\* current_time.weekday() == 1: the test weekly_schedule_post goes on with
is_tuesday(now) == now.weekday = 1

\* last_schedule_message_id and last_schedule_channel_id ==
\* target_channel.id: the previous post is looked for in the target channel
tracked_in(channel) ==
    /\ last_schedule_message_id # << >>
    /\ last_schedule_channel_id = << channel >>

\* the lines the task prints about the previous post
LineDeleted == "Deleted previous schedule post"
LineNotFound == "Previous schedule message was already deleted"
LineHTTP == "Could not delete previous schedule message"
LinePosted == "Automatically posted weekly schedule"
LineError == "Error posting automatic schedule"

\* the deletion of the previous post with no handler for discord.NotFound:
\* the exception leaves the try block of the task
delete_previous_uncaught(channel, accepted) ==
    LET old == [ id |-> last_schedule_message_id[1], channel |-> channel ]
    IN  IF ~ tracked_in(channel)
        THEN [ messages |-> channel_messages, lines |-> << >>,
               raised |-> FALSE ]
        ELSE IF old \notin channel_messages
        THEN [ messages |-> channel_messages, lines |-> << >>,
               raised |-> TRUE ]
        ELSE IF accepted
        THEN [ messages |-> channel_messages \ { old },
               lines |-> << LineDeleted >>, raised |-> FALSE ]
        ELSE [ messages |-> channel_messages, lines |-> << LineHTTP >>,
               raised |-> FALSE ]

\* the deletion of the previous post: fetch_message and delete inside
\* try/except.  accepted tells whether Discord carries out the deletion of
\* a message that exists.  The result is the messages left, the lines
\* printed and whether an exception leaves the block.
delete_previous(channel, accepted) ==
    LET old == [ id |-> last_schedule_message_id[1], channel |-> channel ]
    IN  IF ~ tracked_in(channel)
        THEN [ messages |-> channel_messages, lines |-> << >>,
               raised |-> FALSE ]
        ELSE IF old \notin channel_messages
        THEN [ messages |-> channel_messages, lines |-> << LineNotFound >>,
               raised |-> FALSE ]
        ELSE IF accepted
        THEN [ messages |-> channel_messages \ { old },
               lines |-> << LineDeleted >>, raised |-> FALSE ]
        ELSE [ messages |-> channel_messages, lines |-> << LineHTTP >>,
               raised |-> FALSE ]

\* weekly_schedule_post, run by tasks.loop at 3:00 every day: on a day
\* other than Tuesday it returns.  On Tuesday it finds the target channel
\* (the bot is taken to have its permissions there), deletes the previous
\* post, sends the new one, tracks it and saves the configuration; an
\* exception is printed and ends the run.  No statement of the task reads
\* or writes table houses.
weekly_schedule_post ==
    /\ phase = "ready" /\ LoopFree
    /\ clock.minute = 180
    /\ ~ fired
    /\ is_tuesday(clock) => sent < MaxPosts
    /\ fired' = TRUE
    /\ IF ~ is_tuesday(clock) \/ target_channel = << >>
       THEN UNCHANGED << last_schedule_message_id, channel_messages,
                         config_vars >>
       ELSE \E accepted \in BOOLEAN :
              LET channel == target_channel[1]
                  previous == delete_previous(channel, accepted)
                  message == [ id |-> sent + 1, channel |-> channel ]
              IN  IF previous.raised
                  THEN /\ printed' = << LineError >>
                       /\ UNCHANGED << last_schedule_message_id,
                                       channel_messages, SCHEDULE_CHANNEL_ID,
                                       last_schedule_channel_id, bot_config,
                                       sent >>
                  ELSE /\ channel_messages' =
                            previous.messages \cup { message }
                       /\ sent' = sent + 1
                       /\ last_schedule_message_id' = << message.id >>
                       /\ last_schedule_channel_id' = << channel >>
                       /\ bot_config' =
                            saved_config(SCHEDULE_CHANNEL_ID,
                                         << message.id >>, << channel >>)
                       /\ printed' = previous.lines \o << LinePosted >>
                       /\ UNCHANGED SCHEDULE_CHANNEL_ID
    /\ UNCHANGED << phase, pc, schema, houses, reset_log, tx, claimed_count,
                    views, confirm_views, submitted, panel, map_vars, clock,
                    report_vars, prompt_age,
                    fixed_count, pool_vars,
                    modal_embed, await_vars >>

\* the clock at any minute it stops at, any day of the week
Clocks ==
    { [ weekday |-> d, minute |-> DayMinutes[i] ] :
        d \in 0..6, i \in 1..Len(DayMinutes) }

InitTimer ==
    /\ phase = "ready"
    /\ pc = "idle"
    /\ schema = TRUE
    /\ houses \in ModalTables
    /\ reset_log = << >>
    /\ tx = NoTx
    /\ claimed_count = 0
    /\ views = {}
    /\ confirm_views = {}
    /\ submitted = << >>
    /\ panel = << >>
    /\ sectors = init_database_locations(NoSectors)
    /\ pois = << >>
    /\ sector_views = {}
    /\ clock \in Clocks
    /\ fired = FALSE
    /\ last_schedule_message_id = << >>
    /\ channel_messages = {}
    /\ InitConfig
    /\ InitReports
    /\ prompt_age = NoPrompts
    /\ fixed_count = 0
    /\ InitPool
    /\ modal_embed = << >>
    /\ InitAwait

\* what happens with no user at hand: time passes and the daily task runs
NextTimer ==
    \/ Tick
    \/ weekly_schedule_post

SpecTimer == InitTimer /\ [][NextTimer]_vars /\ WF_vars(NextTimer)

\* minutes from the time now to the time next
MinutesUntil(now, next) == next.days_ahead * 1440 + next.minute - now.minute

\* C19: for every time now and every target weekday and time, the next
\* occurrence falls on the target weekday at the target time, is later
\* than now and at most 7 days later; it is 7 days later when now is the
\* target weekday and time, and today when the target is later today.
C19_NextOccurrence ==
    \A target_weekday \in 0..6, target \in TargetTimes :
        LET next == get_next_weekday(clock, target_weekday,
                                     target[1], target[2])
            target_minute == target[1] * 60 + target[2]
        IN  /\ next.weekday = target_weekday
            /\ next.minute = target_minute
            /\ MinutesUntil(clock, next) > 0
            /\ MinutesUntil(clock, next) <= 7 * 1440
            /\ (clock.weekday = target_weekday /\ clock.minute = target_minute)
               => MinutesUntil(clock, next) = 7 * 1440
            /\ (clock.weekday = target_weekday /\ clock.minute < target_minute)
               => next.days_ahead = 0

\* it is Tuesday 3:00, the time the daily task asks for, and the task has
\* run
C19_Witness ==
    /\ clock = [ weekday |-> 1, minute |-> 180 ]
    /\ fired
    /\ get_next_weekday(clock, 1, 3, 0).days_ahead = 7

\* C20: after the daily task has run on a Tuesday, with no user issuing a
\* command, every house comes to be in the state the weekly reset leaves.
C20_TimerResetsHouses ==
    (fired /\ clock.weekday = 1)
    ~> (\A n \in DOMAIN houses : IsReset(houses[n]))

----------------------------------------------------------------------------
(* The schedule channel: the daily task with the commands that set the     *)
(* channel, post the schedule by hand and clear the tracked post, users    *)
(* who delete posts, and restarts of the process                           *)

\* /post_schedule: the schedule is sent to the channel named and tracked
\* (the bot is taken to have its permissions there)
slash_post_schedule(channel) ==
    /\ phase = "ready" /\ LoopFree
    /\ sent < MaxPosts
    /\ channel_messages' =
         channel_messages \cup { [ id |-> sent + 1, channel |-> channel ] }
    /\ sent' = sent + 1
    /\ last_schedule_message_id' = << sent + 1 >>
    /\ last_schedule_channel_id' = << channel >>
    /\ bot_config' = saved_config(SCHEDULE_CHANNEL_ID, << sent + 1 >>,
                                  << channel >>)
    /\ UNCHANGED << phase, pc, schema, houses, reset_log, tx, claimed_count,
                    views, confirm_views, submitted, panel, map_vars, clock,
                    fired, SCHEDULE_CHANNEL_ID, printed,
                    report_vars, prompt_age,
                    fixed_count, pool_vars,
                    modal_embed, await_vars >>

\* /set_schedule_channel
slash_set_schedule_channel(channel) ==
    /\ phase = "ready" /\ LoopFree
    /\ SCHEDULE_CHANNEL_ID' = << channel >>
    /\ bot_config' = saved_config(<< channel >>, last_schedule_message_id,
                                  last_schedule_channel_id)
    /\ UNCHANGED << phase, pc, schema, houses, reset_log, tx, claimed_count,
                    views, confirm_views, submitted, panel, map_vars, clock,
                    fired, last_schedule_message_id, channel_messages,
                    last_schedule_channel_id, sent, printed,
                    report_vars, prompt_age,
                    fixed_count, pool_vars,
                    modal_embed, await_vars >>

\* /clear_schedule_memory with the call of save_bot_config left out
clear_schedule_memory_unsaved ==
    /\ phase = "ready" /\ LoopFree
    /\ last_schedule_message_id # << >>
    /\ last_schedule_message_id' = << >>
    /\ last_schedule_channel_id' = << >>
    /\ UNCHANGED << phase, pc, schema, houses, reset_log, tx, claimed_count,
                    views, confirm_views, submitted, panel, map_vars, clock,
                    fired, channel_messages, SCHEDULE_CHANNEL_ID, sent,
                    printed, bot_config, report_vars, prompt_age,
                    fixed_count, pool_vars, modal_embed, await_vars >>

\* /clear_schedule_memory
slash_clear_schedule_memory ==
    /\ phase = "ready" /\ LoopFree
    /\ last_schedule_message_id # << >>
    /\ last_schedule_message_id' = << >>
    /\ last_schedule_channel_id' = << >>
    /\ bot_config' = saved_config(SCHEDULE_CHANNEL_ID, << >>, << >>)
    /\ UNCHANGED << phase, pc, schema, houses, reset_log, tx, claimed_count,
                    views, confirm_views, submitted, panel, map_vars, clock,
                    fired, channel_messages, SCHEDULE_CHANNEL_ID, sent,
                    printed,
                    report_vars, prompt_age,
                    fixed_count, pool_vars,
                    modal_embed, await_vars >>

\* a member of the guild deletes a schedule post in the Discord client
delete_message(message) ==
    /\ message \in channel_messages
    /\ channel_messages' = channel_messages \ { message }
    /\ UNCHANGED << phase, pc, schema, houses, reset_log, tx, claimed_count,
                    views, confirm_views, submitted, panel, map_vars, clock,
                    fired, last_schedule_message_id, config_vars,
                    report_vars, prompt_age,
                    fixed_count, pool_vars,
                    modal_embed, await_vars >>

\* load_bot_config: the globals after the file has been read; they keep
\* their values when there is no file
load_bot_config ==
    IF bot_config = << >>
    THEN << SCHEDULE_CHANNEL_ID, last_schedule_message_id,
            last_schedule_channel_id >>
    ELSE << bot_config[1].schedule_channel_id,
            bot_config[1].last_schedule_message_id,
            bot_config[1].last_schedule_channel_id >>

\* the process is started again and on_ready loads the configuration
restart ==
    /\ phase = "ready" /\ LoopFree
    /\ LET loaded == load_bot_config
       IN  /\ SCHEDULE_CHANNEL_ID' =
                IF bot_config = << >> THEN << >> ELSE loaded[1]
           /\ last_schedule_message_id' =
                IF bot_config = << >> THEN << >> ELSE loaded[2]
           /\ last_schedule_channel_id' =
                IF bot_config = << >> THEN << >> ELSE loaded[3]
    /\ UNCHANGED << phase, pc, schema, houses, reset_log, tx, claimed_count,
                    views, confirm_views, submitted, panel, map_vars, clock,
                    fired, channel_messages, bot_config, sent, printed,
                    report_vars, prompt_age,
                    fixed_count, pool_vars,
                    modal_embed, await_vars >>

InitSchedule ==
    /\ phase = "ready"
    /\ pc = "idle"
    /\ schema = TRUE
    /\ houses = populate_initial_houses(NoRows)
    /\ reset_log = << >>
    /\ tx = NoTx
    /\ claimed_count = 0
    /\ views = {}
    /\ confirm_views = {}
    /\ submitted = << >>
    /\ panel = << >>
    /\ sectors = init_database_locations(NoSectors)
    /\ pois = << >>
    /\ sector_views = {}
    /\ clock \in { [ weekday |-> d, minute |-> 0 ] : d \in 0..1 }
    /\ fired = FALSE
    /\ last_schedule_message_id = << >>
    /\ channel_messages = {}
    /\ InitConfig
    /\ InitReports
    /\ prompt_age = NoPrompts
    /\ fixed_count = 0
    /\ InitPool
    /\ modal_embed = << >>
    /\ InitAwait

NextSchedule ==
    \/ Tick
    \/ weekly_schedule_post
    \/ \E channel \in Channels : slash_post_schedule(channel)
    \/ \E channel \in Channels : slash_set_schedule_channel(channel)
    \/ slash_clear_schedule_memory
    \/ \E message \in channel_messages : delete_message(message)
    \/ restart

SpecSchedule == InitSchedule /\ [][NextSchedule]_vars

\* a run of the daily task
TaskRuns == ~ fired /\ fired'

\* C21: a run of the daily task on a weekday other than Tuesday deletes no
\* message and posts none, and leaves the tracked message id, the tracked
\* channel id, the schedule channel and the saved configuration as they
\* were.
C21_NonTuesdayNoOp_Step ==
    (TaskRuns /\ clock.weekday # 1)
    => UNCHANGED << channel_messages, last_schedule_message_id,
                    last_schedule_channel_id, SCHEDULE_CHANNEL_ID,
                    bot_config, sent >>

C21_NonTuesdayNoOp == [][C21_NonTuesdayNoOp_Step]_vars

\* the task has run on a Wednesday with a post tracked and standing
C21_Witness ==
    /\ fired
    /\ clock.weekday = 2
    /\ last_schedule_message_id # << >>
    /\ \E m \in channel_messages : << m.id >> = last_schedule_message_id
    /\ bot_config # << >>

\* C22: when a Tuesday run of the task has posted, the tracked and the
\* saved message and channel ids are those of the new post, and the post
\* that was tracked before the run no longer exists.
C22_OnePostLive_Step ==
    (TaskRuns /\ sent' = sent + 1)
    => /\ [ id |-> last_schedule_message_id'[1],
            channel |-> last_schedule_channel_id'[1] ] \in channel_messages'
       /\ last_schedule_message_id' = << sent' >>
       /\ bot_config'[1].last_schedule_message_id = last_schedule_message_id'
       /\ bot_config'[1].last_schedule_channel_id = last_schedule_channel_id'
       /\ \A m \in channel_messages' :
            << m.id >> # last_schedule_message_id

C22_OnePostLive == [][C22_OnePostLive_Step]_vars

\* C23: a Tuesday run of the task that finds a post tracked in the target
\* channel and the post gone sends the new post all the same, tracks it and
\* saves its ids.
C23_GoneIsTolerated_Step ==
    (/\ TaskRuns
     /\ clock.weekday = 1
     /\ target_channel # << >>
     /\ tracked_in(target_channel[1])
     /\ \A m \in channel_messages : << m.id >> # last_schedule_message_id)
    => /\ sent' = sent + 1
       /\ channel_messages' =
            channel_messages
              \cup { [ id |-> sent', channel |-> target_channel[1] ] }
       /\ last_schedule_message_id' = << sent' >>
       /\ last_schedule_channel_id' = target_channel
       /\ bot_config' = saved_config(SCHEDULE_CHANNEL_ID,
                                     << sent' >>, target_channel)

C23_GoneIsTolerated == [][C23_GoneIsTolerated_Step]_vars

\* the task has run on a Tuesday, found the tracked post gone and posted
C23_Witness ==
    /\ fired
    /\ clock.weekday = 1
    /\ printed = << LineNotFound, LinePosted >>
    /\ last_schedule_message_id = << sent >>
    /\ Cardinality(channel_messages) = 1

----------------------------------------------------------------------------
(* Location reports: the commands that set a report channel, the refresh   *)
(* of the reports, and users who delete reports                            *)

\* a set-channel command: the location tables are created if needed, the
\* row is written and committed, and the reports of the guild are
\* refreshed (the user is taken to have Manage Channels)
set_locations_channel(config_name, guild_id, channel) ==
    /\ phase = "ready" /\ LoopFree
    /\ channel_guild(channel) = guild_id
    /\ sectors' = init_database_locations(sectors)
    /\ LET replaced == replace_config(channel_config, config_name, channel,
                                      guild_id)
           refreshed == update_location_reports(replaced, report_messages,
                                                sent, guild_id)
       IN  /\ refreshed.sent <= MaxPosts
           /\ channel_config' = refreshed.channel_config
           /\ report_messages' = refreshed.report_messages
           /\ sent' = refreshed.sent
    /\ UNCHANGED << phase, pc, schema, houses, reset_log, tx, claimed_count,
                    views, confirm_views, submitted, panel, pois,
                    sector_views, clock, fired, last_schedule_message_id,
                    channel_messages, SCHEDULE_CHANNEL_ID,
                    last_schedule_channel_id, bot_config, printed, prompt_age,
                    fixed_count, pool_vars,
                    modal_embed, await_vars >>

set_base_locations_channel(guild_id, channel) ==
    set_locations_channel("base_locations", guild_id, channel)

set_spice_locations_channel(guild_id, channel) ==
    set_locations_channel("spice_locations", guild_id, channel)

set_control_points_channel(guild_id, channel) ==
    set_locations_channel("control_points", guild_id, channel)

set_resource_locations_channel(guild_id, channel) ==
    set_locations_channel("resource_locations", guild_id, channel)

\* /refresh_location_reports (the user is taken to have Manage Messages)
refresh_location_reports(guild_id) ==
    /\ phase = "ready" /\ LoopFree
    /\ LET refreshed == update_location_reports(channel_config,
                                                report_messages, sent,
                                                guild_id)
       IN  /\ refreshed.sent <= MaxPosts
           /\ channel_config' = refreshed.channel_config
           /\ report_messages' = refreshed.report_messages
           /\ sent' = refreshed.sent
    /\ UNCHANGED << phase, pc, schema, houses, reset_log, tx, claimed_count,
                    views, confirm_views, submitted, panel, map_vars, clock,
                    fired, last_schedule_message_id, channel_messages,
                    SCHEDULE_CHANNEL_ID, last_schedule_channel_id,
                    bot_config, printed, prompt_age,
                    fixed_count, pool_vars,
                    modal_embed, await_vars >>

\* a member of the guild deletes a report in the Discord client
delete_report(message) ==
    /\ message \in report_messages
    /\ report_messages' = report_messages \ { message }
    /\ UNCHANGED << phase, pc, schema, houses, reset_log, tx, claimed_count,
                    views, confirm_views, submitted, panel, map_vars,
                    timer_vars, channel_config, prompt_age,
                    fixed_count, pool_vars,
                    modal_embed, await_vars >>

InitReportChannels ==
    /\ phase = "ready"
    /\ pc = "idle"
    /\ schema = TRUE
    /\ houses = populate_initial_houses(NoRows)
    /\ reset_log = << >>
    /\ tx = NoTx
    /\ claimed_count = 0
    /\ views = {}
    /\ confirm_views = {}
    /\ submitted = << >>
    /\ panel = << >>
    /\ sectors = init_database_locations(NoSectors)
    /\ pois = << >>
    /\ sector_views = {}
    /\ clock = [ weekday |-> 0, minute |-> 0 ]
    /\ fired = FALSE
    /\ last_schedule_message_id = << >>
    /\ channel_messages = {}
    /\ InitConfig
    /\ InitReports
    /\ prompt_age = NoPrompts
    /\ fixed_count = 0
    /\ InitPool
    /\ modal_embed = << >>
    /\ InitAwait

NextReports ==
    \/ \E guild_id \in Guilds, channel \in Channels :
          set_base_locations_channel(guild_id, channel)
    \/ \E guild_id \in Guilds, channel \in Channels :
          set_spice_locations_channel(guild_id, channel)
    \/ \E guild_id \in Guilds, channel \in Channels :
          set_control_points_channel(guild_id, channel)
    \/ \E guild_id \in Guilds, channel \in Channels :
          set_resource_locations_channel(guild_id, channel)
    \/ \E guild_id \in Guilds : refresh_location_reports(guild_id)
    \/ \E message \in report_messages : delete_report(message)

SpecReports == InitReportChannels /\ [][NextReports]_vars

\* the rows of a table channel_config
Rows(config) == { config[i] : i \in 1..Len(config) }

\* C24: a step that writes the row of a report type for one guild leaves
\* the row of the same report type of every other guild in the table,
\* with its channel and its message id.
C24_ConfigPerGuild_Step ==
    \A row \in Rows(channel_config) :
      \A guild_id \in Guilds \ { row.guild_id } :
        (/\ \E new \in Rows(channel_config') :
               /\ new.config_name = row.config_name
               /\ new.guild_id = guild_id
         /\ ~ \E old \in Rows(channel_config) :
               /\ old.config_name = row.config_name
               /\ old.guild_id = guild_id)
        => row \in Rows(channel_config')

C24_ConfigPerGuild == [][C24_ConfigPerGuild_Step]_vars

\* rows of a guild whose report does not stand
Missing(config, messages, guild_id) ==
    { i \in 1..Len(config) :
        /\ config[i].guild_id = guild_id
        /\ ~ report_stands(config, messages, i) }

----------------------------------------------------------------------------
(* The confirmation prompts with their timeout: the two reset commands,    *)
(* their Confirm and Cancel buttons, and the passing of time               *)

\* discord.ui.View(timeout=30) of ConfirmResetView and ConfirmFullResetView
ViewTimeout == 30

\* seconds that pass in one step of the prompts' timer
SecondsPerStep == 10

\* a view that accepts input whatever its age (timeout=None)
never_expired(age) == FALSE

\* the view's timeout: input is no longer accepted after ViewTimeout
\* seconds
view_expired(age) == age >= ViewTimeout

\* the age of the prompts after SecondsPerStep more seconds
aged ==
    [ prompt \in Prompts |->
        IF prompt \notin confirm_views THEN prompt_age[prompt]
        ELSE IF prompt_age[prompt] + SecondsPerStep >= ViewTimeout
        THEN ViewTimeout
        ELSE prompt_age[prompt] + SecondsPerStep ]

\* time passes for the prompts that are open; a view that has reached its
\* timeout is stopped and its buttons are not answered any more
prompt_timer ==
    /\ Serving /\ LoopFree
    /\ confirm_views # {}
    /\ prompt_age' = aged
    /\ confirm_views' =
         { prompt \in confirm_views : ~ view_expired(aged[prompt]) }
    /\ UNCHANGED << phase, pc, schema, houses, reset_log, tx, claimed_count,
                    views, submitted, panel, map_vars, timer_vars,
                    report_vars,
                    fixed_count, pool_vars,
                    modal_embed, await_vars >>

InitConfirm ==
    /\ phase = "ready"
    /\ pc = "idle"
    /\ schema = TRUE
    /\ houses \in ModalTables
    /\ reset_log = << >>
    /\ tx = NoTx
    /\ claimed_count = 0
    /\ views = {}
    /\ confirm_views = {}
    /\ submitted = << >>
    /\ panel = << >>
    /\ sectors \in MapTables
    /\ pois = << >>
    /\ sector_views = {}
    /\ clock = [ weekday |-> 0, minute |-> 0 ]
    /\ fired = FALSE
    /\ last_schedule_message_id = << >>
    /\ channel_messages = {}
    /\ InitConfig
    /\ InitReports
    /\ prompt_age = NoPrompts
    /\ fixed_count = 0
    /\ InitPool
    /\ modal_embed = << >>
    /\ InitAwait

NextConfirm ==
    \/ slash_reset_landsraad
    \/ confirm_reset_count
    \/ confirm_reset_update
    \/ confirm_reset_log
    \/ confirm_reset_commit
    \/ confirm_reset_respond
    \/ cancel_reset
    \/ slash_full_reset
    \/ full_reset_drop_houses
    \/ full_reset_drop_rest
    \/ full_reset_init
    \/ full_reset_populate
    \/ cancel_full_reset
    \/ prompt_timer

SpecConfirm == InitConfirm /\ [][NextConfirm]_vars

\* what the two resets write
Stored == << schema, houses, reset_log, sectors, pois >>

\* C26: a reset begins only on a prompt that was sent, was not cancelled
\* and is younger than the timeout, and the stored state changes only in
\* the steps of a reset so begun.
C26_ConfirmInWindow_Step ==
    /\ (pc = "idle" /\ pc' = "reset_update")
       => /\ "reset" \in confirm_views
          /\ prompt_age["reset"] < ViewTimeout
    /\ (pc = "idle" /\ pc' = "full_drop_rest")
       => /\ "full" \in confirm_views
          /\ prompt_age["full"] < ViewTimeout
    /\ Stored' # Stored
       => \/ pc = "idle" /\ pc' \in { "reset_update", "full_drop_rest" }
          \/ pc \in { "reset_update", "reset_log", "reset_commit",
                      "full_drop_rest", "full_init", "full_populate" }

C26_ConfirmInWindow == [][C26_ConfirmInWindow_Step]_vars

\* the weekly reset has been confirmed 20 seconds after its prompt was
\* sent, and the prompt of the full reset has lapsed at 30 seconds with
\* nothing done
C26_Witness ==
    /\ pc = "reset_respond"
    /\ prompt_age["reset"] = 2 * SecondsPerStep
    /\ Len(reset_log) = 1
    /\ prompt_age["full"] = ViewTimeout
    /\ "full" \notin confirm_views
    /\ schema

----------------------------------------------------------------------------
(* The repair of alliances at start-up and by /fix_database, from any      *)
(* stored values.  on_ready up to its first await and /fix_database after  *)
(* its defer each run as one block of the event loop.                      *)

\* the values column alliance may hold in the file found: NULL, the two
\* alliances, a user name, an alliance in small letters, the empty string
StoredAlliances == { NULL, ATREIDES, HARKONNEN, User, "atreides", "" }

\* the values column completed_by may hold in the file found
StoredCompletedBy == { NULL, ATREIDES, User }

\* the tables found: the roster or the names of an earlier version, with
\* any of these values in each row
StoredTables ==
    UNION { [ names -> { [ DefaultRow EXCEPT !.alliance = a,
                                             !.completed_by = c,
                                             !.last_updated = Earlier ] :
                           a \in StoredAlliances, c \in StoredCompletedBy } ] :
            names \in { Roster, LegacyNames } }

\* the rows matched by alliance IS NOT NULL alone
rowcount_not_null(t) ==
    Cardinality({ n \in DOMAIN t : t[n].alliance # NULL })

\* cursor.rowcount after the UPDATE that repairs the alliances: the number
\* of rows it changed
rowcount_alliances(t) == Cardinality(invalid_alliances(t))

\* on_ready up to the command sync: the configuration is loaded, the
\* roster is populated, the invalid alliances are repaired and their
\* number is printed
on_ready ==
    /\ phase = "connected" /\ LoopFree
    /\ SCHEDULE_CHANNEL_ID' = load_bot_config[1]
    /\ last_schedule_message_id' = load_bot_config[2]
    /\ last_schedule_channel_id' = load_bot_config[3]
    /\ houses' = fix_alliances(populate_initial_houses(houses))
    /\ fixed_count' = rowcount_alliances(populate_initial_houses(houses))
    /\ phase' = "ready"
    /\ UNCHANGED << pc, schema, reset_log, tx, claimed_count, views,
                    confirm_views, submitted, panel, map_vars, clock, fired,
                    channel_messages, bot_config, sent, printed, report_vars,
                    prompt_age, pool_vars,
                    modal_embed, await_vars >>

\* /fix_database: the roster is populated, the invalid alliances and
\* completed_by values are repaired, and the counts are sent
slash_fix_database ==
    /\ Serving /\ LoopFree
    /\ houses' =
         fix_completed_by(fix_alliances(populate_initial_houses(houses)))
    /\ fixed_count' = rowcount_alliances(populate_initial_houses(houses))
    /\ UNCHANGED << phase, pc, schema, reset_log, tx, claimed_count, views,
                    confirm_views, submitted, panel, map_vars, timer_vars,
                    report_vars, prompt_age, pool_vars,
                    modal_embed, await_vars >>

InitRepair ==
    /\ phase = "connected"
    /\ pc = "idle"
    /\ schema = TRUE
    /\ houses \in StoredTables
    /\ reset_log = << >>
    /\ tx = NoTx
    /\ claimed_count = 0
    /\ views = {}
    /\ confirm_views = {}
    /\ submitted = << >>
    /\ panel = << >>
    /\ sectors = init_database_locations(NoSectors)
    /\ pois = << >>
    /\ sector_views = {}
    /\ clock = [ weekday |-> 0, minute |-> 0 ]
    /\ fired = FALSE
    /\ last_schedule_message_id = << >>
    /\ channel_messages = {}
    /\ InitConfig
    /\ InitReports
    /\ prompt_age = NoPrompts
    /\ fixed_count = 0
    /\ InitPool
    /\ modal_embed = << >>
    /\ InitAwait

NextRepair ==
    \/ on_ready
    \/ slash_fix_database

SpecRepair == InitRepair /\ [][NextRepair]_vars

\* the houses held before and after a step
Held == DOMAIN houses \cap DOMAIN houses'

\* C27: a repair, at start-up or by /fix_database, leaves no alliance
\* other than Atreides, Harkonnen or NULL, keeps every alliance that was
\* Atreides or Harkonnen, and counts exactly the houses whose alliance it
\* set to NULL.
C27_RepairCoerces_Step ==
    /\ \A n \in DOMAIN houses' :
         houses'[n].alliance \in { NULL, ATREIDES, HARKONNEN }
    /\ \A n \in Held :
         houses[n].alliance \in { ATREIDES, HARKONNEN }
         => houses'[n].alliance = houses[n].alliance
    /\ fixed_count' =
         Cardinality({ n \in Held : /\ houses[n].alliance # NULL
                                    /\ houses'[n].alliance = NULL })

C27_RepairCoerces == [][C27_RepairCoerces_Step]_vars

\* a repair has set one alliance to NULL and kept an alliance of Atreides
C27_Witness ==
    /\ phase = "ready"
    /\ fixed_count = 1
    /\ \E n \in DOMAIN houses : houses[n].alliance = ATREIDES
    /\ \E n \in DOMAIN houses : houses[n].alliance = NULL

----------------------------------------------------------------------------
(* DatabaseManager: callers enter and leave get_connection; the blocks     *)
(* under self._lock are single steps                                       *)

\* get_connection up to the yield: under the lock an idle connection is
\* popped, or a new one is opened when there is none
get_connection_enter(caller) ==
    /\ holding[caller] = << >>
    /\ IF connections # << >>
       THEN /\ holding' = [ holding EXCEPT ![caller] =
                              << connections[Len(connections)] >> ]
            /\ connections' = SubSeq(connections, 1, Len(connections) - 1)
            /\ UNCHANGED opened
       ELSE /\ opened < MaxOpened
            /\ holding' = [ holding EXCEPT ![caller] = << opened + 1 >> ]
            /\ opened' = opened + 1
            /\ UNCHANGED connections
    /\ UNCHANGED << phase, pc, schema, houses, reset_log, tx, claimed_count,
                    views, confirm_views, submitted, panel, map_vars,
                    timer_vars, report_vars, prompt_age, fixed_count,
                    closed, modal_embed, await_vars >>

\* get_connection with the release written after the yield and not in a
\* finally block: when the body raises, the release is passed over
get_connection_exit_no_finally(caller, raised) ==
    /\ holding[caller] # << >>
    /\ holding' = [ holding EXCEPT ![caller] = << >> ]
    /\ connections' =
         IF ~ raised /\ Len(connections) < max_connections
         THEN Append(connections, holding[caller][1])
         ELSE connections
    /\ closed' =
         IF ~ raised /\ Len(connections) >= max_connections
         THEN closed \cup { holding[caller][1] }
         ELSE closed
    /\ UNCHANGED << phase, pc, schema, houses, reset_log, tx, claimed_count,
                    views, confirm_views, submitted, panel, map_vars,
                    timer_vars, report_vars, prompt_age, fixed_count,
                    opened, modal_embed, await_vars >>

\* get_connection after the yield, whether the body of the with block
\* returned or raised: in the finally block, under the lock, the
\* connection is put back when fewer than max_connections are idle, else
\* closed
get_connection_exit(caller, raised) ==
    /\ holding[caller] # << >>
    /\ holding' = [ holding EXCEPT ![caller] = << >> ]
    /\ connections' =
         IF Len(connections) < max_connections
         THEN Append(connections, holding[caller][1])
         ELSE connections
    /\ closed' =
         IF Len(connections) < max_connections
         THEN closed
         ELSE closed \cup { holding[caller][1] }
    /\ UNCHANGED << phase, pc, schema, houses, reset_log, tx, claimed_count,
                    views, confirm_views, submitted, panel, map_vars,
                    timer_vars, report_vars, prompt_age, fixed_count,
                    opened, modal_embed, await_vars >>

\* close_all: the idle connections are closed
close_all ==
    /\ connections # << >>
    /\ connections' = << >>
    /\ closed' = closed \cup { connections[i] : i \in 1..Len(connections) }
    /\ UNCHANGED << phase, pc, schema, houses, reset_log, tx, claimed_count,
                    views, confirm_views, submitted, panel, map_vars,
                    timer_vars, report_vars, prompt_age, fixed_count,
                    holding, opened,
                    modal_embed, await_vars >>

InitManager ==
    /\ phase = "ready"
    /\ pc = "idle"
    /\ schema = TRUE
    /\ houses = populate_initial_houses(NoRows)
    /\ reset_log = << >>
    /\ tx = NoTx
    /\ claimed_count = 0
    /\ views = {}
    /\ confirm_views = {}
    /\ submitted = << >>
    /\ panel = << >>
    /\ sectors = init_database_locations(NoSectors)
    /\ pois = << >>
    /\ sector_views = {}
    /\ clock = [ weekday |-> 0, minute |-> 0 ]
    /\ fired = FALSE
    /\ last_schedule_message_id = << >>
    /\ channel_messages = {}
    /\ InitConfig
    /\ InitReports
    /\ prompt_age = NoPrompts
    /\ fixed_count = 0
    /\ InitPool
    /\ modal_embed = << >>
    /\ InitAwait

NextManager ==
    \/ \E caller \in Callers : get_connection_enter(caller)
    \/ \E caller \in Callers, raised \in BOOLEAN :
          get_connection_exit(caller, raised)
    \/ close_all

SpecManager == InitManager /\ [][NextManager]_vars

\* the connections that are open: the idle ones and those callers hold
Open ==
    { connections[i] : i \in 1..Len(connections) }
      \cup { holding[caller][1] :
               caller \in { c \in Callers : holding[c] # << >> } }

\* C28: at most max_connections connections are open at any time, idle
\* or held by a caller.
C28_PoolBounded == Cardinality(Open) <= max_connections

----------------------------------------------------------------------------
(* The house embed after the unlock and update modals *)

\* texts typed into the Current Goal Amount field of the update modal
EmbedGoalInputs == { "500", "-5", "-3500", "70000" }

\* texts typed into the Points Per Delivery field of the unlock modal
EmbedPpdInputs == { "23", "0", "-5" }

InitEmbed ==
    /\ phase = "ready"
    /\ pc = "idle"
    /\ schema = TRUE
    /\ houses \in ModalTables
    /\ reset_log = << >>
    /\ tx = NoTx
    /\ claimed_count = 0
    /\ views = {}
    /\ confirm_views = {}
    /\ submitted = << >>
    /\ panel = << >>
    /\ sectors = init_database_locations(NoSectors)
    /\ pois = << >>
    /\ sector_views = {}
    /\ clock = [ weekday |-> 0, minute |-> 0 ]
    /\ fired = FALSE
    /\ last_schedule_message_id = << >>
    /\ channel_messages = {}
    /\ InitConfig
    /\ InitReports
    /\ prompt_age = NoPrompts
    /\ fixed_count = 0
    /\ InitPool
    /\ modal_embed = << >>
    /\ InitAwait

NextEmbed ==
    \/ \E house_name \in PanelNames : house_button_callback(house_name)
    \/ \E v \in views : cancel_callback(v)
    \/ \E v \in views, quest \in QuestInputs, ppd_text \in EmbedPpdInputs :
          unlock_on_submit(v, quest, ppd_text)
    \/ unlock_set_quest
    \/ unlock_set_ppd
    \/ \E v \in views, goal_text \in EmbedGoalInputs :
          update_on_submit(v, goal_text, "")
    \/ update_set_cp

SpecEmbed == InitEmbed /\ [][NextEmbed]_vars

\* the cells of a bar that are filled
FilledCells(bar) == { i \in DOMAIN bar.cells : bar.cells[i] = FilledCell }

\* floor(a / b) for b > 0
Floor(a, b) == a \div b

\* min(100, progress / goal * 100) / 5 rounded down, for goal > 0
FloorOfPercentageBy5(current, goal) ==
    IF current >= goal THEN 20 ELSE Floor(current * 20, goal)

\* C29: whatever progress the update modal stored, the bar of the embed it
\* answers with has exactly 20 cells, of which floor(percentage / 5), a
\* number from 0 to 20, are filled and the other 20 - filled are empty; with
\* a goal of 0 or less the bar has no filled cell and reads 0.0%
C29_BarHasTwentyCells ==
    modal_embed # << >> =>
        LET embed == modal_embed[1]
            bar == embed.progress_bar
            filled == Cardinality(FilledCells(bar))
        IN  /\ Len(bar.cells) = 20
            /\ filled \in 0..20
            /\ Cardinality(DOMAIN bar.cells \ FilledCells(bar)) = 20 - filled
            /\ embed.goal > 0
               => filled = FloorOfPercentageBy5(embed.current, embed.goal)
            /\ embed.goal <= 0 => filled = 0 /\ bar.tenths = 0

\* ceil(a / b) for b > 0
Ceil(a, b) == - Floor(- a, b)

\* C30: an embed that shows the turns needed shows
\* ceil(max(0, goal - progress) / points per delivery) when the points per
\* delivery are positive, so 0 once the progress has reached the goal, and
\* the infinity sign when they are not positive
C30_TurnsNeeded ==
    (modal_embed # << >>
     /\ modal_embed[1].deliveries.kind # "Claimed before completion") =>
        LET embed == modal_embed[1]
        IN  IF embed.deliveries.ppd > 0
            THEN /\ embed.deliveries.kind = "Turns"
                 /\ embed.deliveries.turns
                      = Ceil(embed.remaining, embed.deliveries.ppd)
            ELSE embed.deliveries.kind = Infinite

----------------------------------------------------------------------------
(* The location tables under the map commands and the full reset *)

NextPois ==
    \/ \E sector_id \in MapButtons : sector_callback(sector_id)
    \/ \E sector_id \in sector_views : AddGuildBaseModal_on_submit(sector_id)
    \/ \E sector_id \in sector_views : AddSpiceModal_on_submit(sector_id)
    \/ \E sector_id \in sector_views : AddLandsraadModal_on_submit(sector_id)
    \/ \E sector_id \in sector_views : AddResourceModal_on_submit(sector_id)
    \/ \E sector_id \in sector_views : sector_view_timeout(sector_id)
    \/ \E sector \in SectorInputs, location_type \in LocationTypeInputs :
          slash_quickadd(sector, location_type)
    \/ slash_full_reset
    \/ full_reset_drop_houses
    \/ full_reset_drop_rest
    \/ full_reset_init
    \/ full_reset_populate
    \/ cancel_full_reset

SpecPois == InitMap /\ [][NextPois]_vars

\* the records of one location table
RecordsOf(p, table) == { i \in DOMAIN p : p[i].table = table }

\* C31: in every step, each record stored in one of the four location
\* tables is still stored, unchanged, after the step
C31_PoisOnlyGrow_Step ==
    \A table \in LocationTables :
        \A i \in RecordsOf(pois, table) :
            /\ i \in RecordsOf(pois', table)
            /\ pois'[i] = pois[i]

C31_PoisOnlyGrow == [][C31_PoisOnlyGrow_Step]_vars

----------------------------------------------------------------------------
(* The house detail view on the rows found in the file, before and after  *)
(* the repair of on_ready                                                  *)

\* LandsraadView.create_house_button: the style of the button of a house
create_house_button(house_data) ==
    IF house_data.is_locked # 0 THEN "secondary"
    ELSE IF house_data.alliance = ATREIDES THEN "success"
    ELSE IF house_data.alliance = HARKONNEN THEN "danger"
    ELSE "primary"

\* the tables found: the first house unlocked with any stored alliance
DetailTables ==
    { [ n \in Roster |->
          IF n = AllHouses[1]
          THEN [ DefaultRow EXCEPT !.is_locked = 0, !.alliance = a,
                                   !.last_updated = Earlier ]
          ELSE DefaultRow ] : a \in StoredAlliances }

InitDetail ==
    /\ phase = "connected"
    /\ pc = "idle"
    /\ schema = TRUE
    /\ houses \in DetailTables
    /\ reset_log = << >>
    /\ tx = NoTx
    /\ claimed_count = 0
    /\ views = {}
    /\ confirm_views = {}
    /\ submitted = << >>
    /\ panel = << >>
    /\ sectors = init_database_locations(NoSectors)
    /\ pois = << >>
    /\ sector_views = {}
    /\ clock = [ weekday |-> 0, minute |-> 0 ]
    /\ fired = FALSE
    /\ last_schedule_message_id = << >>
    /\ channel_messages = {}
    /\ InitConfig
    /\ InitReports
    /\ prompt_age = NoPrompts
    /\ fixed_count = 0
    /\ InitPool
    /\ modal_embed = << >>
    /\ InitAwait

NextDetail ==
    \/ on_ready
    \/ \E house_name \in PanelNames : house_button_callback(house_name)
    \/ \E v \in views : cancel_callback(v)
    \/ \E v \in views, goal_text \in { "500", "" } :
          update_on_submit(v, goal_text, "")
    \/ update_set_cp

SpecDetail == InitDetail /\ [][NextDetail]_vars

\* C32: a detail embed says "Claimed by" and names an alliance only for the
\* alliance Atreides or Harkonnen, and only for a house whose button on the
\* master panel is green or red
C32_OnlyValidClaimShown ==
    modal_embed # << >> =>
        LET embed == modal_embed[1]
            button == create_house_button(
                          [ DefaultRow EXCEPT !.is_locked = embed.is_locked,
                                              !.alliance = embed.alliance ])
        IN  /\ embed.status.kind = "Claimed by"
               => /\ embed.status.by \in Valid
                  /\ button \in { "success", "danger" }
            /\ embed.alliance_field # "Unclaimed"
               => embed.alliance_field \in Valid

----------------------------------------------------------------------------
(* update_location_reports, one await at a time.  A call reads the rows  *)
(* of its guild, then sends or edits one report per row; another call may *)
(* run while it waits for Discord.                                        *)

\* update_location_reports up to its first await: SELECT ... FROM
\* channel_config WHERE guild_id = ?, fetchall
update_select(task, guild_id) ==
    /\ phase = "ready"
    /\ refreshes[task] = << >>
    /\ refreshes' =
         [ refreshes EXCEPT ![task] =
             << [ guild_id |-> guild_id,
                  configs |-> SelectSeq(channel_config,
                                LAMBDA row : row.guild_id = guild_id),
                  i |-> 1 ] >> ]
    /\ UNCHANGED << phase, pc, schema, houses, reset_log, tx, claimed_count,
                    views, confirm_views, submitted, panel, map_vars,
                    timer_vars, report_vars, prompt_age, fixed_count,
                    pool_vars, modal_embed, posting, map_view >>

\* UPDATE channel_config SET message_id = ? WHERE config_name = ? AND
\* guild_id = ?
update_message_id(config, message_id, config_name, guild_id) ==
    [ r \in DOMAIN config |->
        IF config[r].config_name = config_name
           /\ config[r].guild_id = guild_id
        THEN [ config[r] EXCEPT !.message_id = << message_id >> ]
        ELSE config[r] ]

\* one pass of the loop of update_location_reports, from the row fetched
\* before the call was suspended: a tracked report that can be fetched is
\* edited; otherwise a report is sent and its id written to the table
update_row(task) ==
    /\ refreshes[task] # << >>
    /\ LET locals == refreshes[task][1]
           row == locals.configs[locals.i]
       IN  /\ locals.i <= Len(locals.configs)
           /\ IF channel_guild(row.channel_id) # locals.guild_id
                 \/ report_stands(locals.configs, report_messages, locals.i)
              THEN UNCHANGED << report_vars, sent >>
              ELSE /\ sent < MaxPosts
                   /\ sent' = sent + 1
                   /\ report_messages' = report_messages \cup
                        { [ id |-> sent + 1, channel |-> row.channel_id ] }
                   /\ channel_config' =
                        update_message_id(channel_config, sent + 1,
                                          row.config_name, locals.guild_id)
           /\ refreshes' = [ refreshes EXCEPT ![task] =
                               << [ locals EXCEPT !.i = locals.i + 1 ] >> ]
    /\ UNCHANGED << phase, pc, schema, houses, reset_log, tx, claimed_count,
                    views, confirm_views, submitted, panel, map_vars, clock,
                    fired, last_schedule_message_id, channel_messages,
                    SCHEDULE_CHANNEL_ID, last_schedule_channel_id,
                    bot_config, printed, prompt_age, fixed_count,
                    pool_vars, modal_embed, posting, map_view >>

\* the loop of update_location_reports is over: the call returns
update_return(task) ==
    /\ refreshes[task] # << >>
    /\ refreshes[task][1].i > Len(refreshes[task][1].configs)
    /\ refreshes' = [ refreshes EXCEPT ![task] = << >> ]
    /\ UNCHANGED << phase, pc, schema, houses, reset_log, tx, claimed_count,
                    views, confirm_views, submitted, panel, map_vars,
                    timer_vars, report_vars, prompt_age, fixed_count,
                    pool_vars, modal_embed, posting, map_view >>

\* the tables found: each guild has a report channel set, with no report
\* tracked yet or with its report standing
RefreshTables ==
    { << [ config_name |-> "base_locations", channel_id |-> 1,
           message_id |-> << >>, guild_id |-> 1 ],
         [ config_name |-> "spice_locations", channel_id |-> 2,
           message_id |-> << >>, guild_id |-> 2 ] >> }

InitRefresh ==
    /\ phase = "ready"
    /\ pc = "idle"
    /\ schema = TRUE
    /\ houses = populate_initial_houses(NoRows)
    /\ reset_log = << >>
    /\ tx = NoTx
    /\ claimed_count = 0
    /\ views = {}
    /\ confirm_views = {}
    /\ submitted = << >>
    /\ panel = << >>
    /\ sectors = init_database_locations(NoSectors)
    /\ pois = << >>
    /\ sector_views = {}
    /\ clock = [ weekday |-> 0, minute |-> 0 ]
    /\ fired = FALSE
    /\ last_schedule_message_id = << >>
    /\ channel_messages = {}
    /\ InitConfig
    /\ channel_config \in RefreshTables
    /\ report_messages = {}
    /\ prompt_age = NoPrompts
    /\ fixed_count = 0
    /\ InitPool
    /\ modal_embed = << >>
    /\ InitAwait

NextRefresh ==
    \/ \E task \in Tasks, guild_id \in Guilds : update_select(task, guild_id)
    \/ \E task \in Tasks : update_row(task)
    \/ \E task \in Tasks : update_return(task)
    \/ \E message \in report_messages : delete_report(message)

SpecRefresh == InitRefresh /\ [][NextRefresh]_vars

\* the reports that exist in the channel of a row
LiveReports(row) == { m \in report_messages : m.channel = row.channel_id }

\* C33: once the refreshes of a guild have returned, the channel of each of
\* its report types holds at most one report, and a report it holds is the
\* one the row tracks
C33_OneLiveReport ==
    (\A task \in Tasks : refreshes[task] = << >>) =>
        \A r \in DOMAIN channel_config :
            /\ Cardinality(LiveReports(channel_config[r])) <= 1
            /\ \A m \in LiveReports(channel_config[r]) :
                 channel_config[r].message_id = << m.id >>

----------------------------------------------------------------------------
(* The unlock modal on locked houses, with the process dying at any point *)

InitUnlock ==
    /\ phase = "ready"
    /\ pc = "idle"
    /\ schema = TRUE
    /\ houses = populate_initial_houses(NoRows)
    /\ reset_log = << >>
    /\ tx = NoTx
    /\ claimed_count = 0
    /\ views = {}
    /\ confirm_views = {}
    /\ submitted = << >>
    /\ panel = << >>
    /\ sectors = init_database_locations(NoSectors)
    /\ pois = << >>
    /\ sector_views = {}
    /\ clock = [ weekday |-> 0, minute |-> 0 ]
    /\ fired = FALSE
    /\ last_schedule_message_id = << >>
    /\ channel_messages = {}
    /\ InitConfig
    /\ InitReports
    /\ prompt_age = NoPrompts
    /\ fixed_count = 0
    /\ InitPool
    /\ modal_embed = << >>
    /\ InitAwait

\* texts typed into the Quest field
UnlockQuestInputs == QuestInputs \cup { "Deliver" }

NextUnlock ==
    \/ \E house_name \in PanelNames \cup Roster :
          house_button_callback(house_name)
    \/ \E v \in views : cancel_callback(v)
    \/ \E v \in views, quest \in UnlockQuestInputs,
          ppd_text \in UnlockPpdInputs \ { "0" } :
          unlock_on_submit(v, quest, ppd_text)
    \/ unlock_set_quest
    \/ unlock_set_ppd
    \/ Crash
    \/ setup_hook
    \/ on_ready

SpecUnlock == InitUnlock /\ [][NextUnlock]_vars

\* C34: whenever no handler is running, the table holds no house that is
\* unlocked while its quest or its points per delivery is still the value
\* the locked row had
C34_UnlockAllOrNothing ==
    pc = "idle" =>
        \A n \in DOMAIN houses :
            houses[n].is_locked = 0
            => /\ houses[n].quest # DefaultRow.quest
               /\ houses[n].points_per_delivery
                    # DefaultRow.points_per_delivery

----------------------------------------------------------------------------
(* /post_schedule and the daily task, each suspended at its await         *)
(* channel.send while the other runs                                      *)

\* schedule posts requested from Discord and not yet answered
InFlight == Cardinality({ poster \in Posters : posting[poster] # << >> })

\* /post_schedule up to await channel.send (the bot is taken to have its
\* permissions in the channel)
post_schedule_send(channel) ==
    /\ phase = "ready" /\ LoopFree
    /\ posting["slash_post_schedule"] = << >>
    /\ sent + InFlight < MaxPosts
    /\ posting' = [ posting EXCEPT !["slash_post_schedule"] =
                      << [ channel |-> channel ] >> ]
    /\ UNCHANGED << phase, pc, schema, houses, reset_log, tx, claimed_count,
                    views, confirm_views, submitted, panel, map_vars,
                    timer_vars, report_vars, prompt_age, fixed_count,
                    pool_vars, modal_embed, refreshes, map_view >>

\* /post_schedule from the answer of channel.send on: the message is
\* tracked and the configuration saved
post_schedule_sent ==
    /\ posting["slash_post_schedule"] # << >>
    /\ LET channel == posting["slash_post_schedule"][1].channel
       IN  /\ channel_messages' = channel_messages
                \cup { [ id |-> sent + 1, channel |-> channel ] }
           /\ sent' = sent + 1
           /\ last_schedule_message_id' = << sent + 1 >>
           /\ last_schedule_channel_id' = << channel >>
           /\ bot_config' = saved_config(SCHEDULE_CHANNEL_ID, << sent + 1 >>,
                                         << channel >>)
    /\ posting' = [ posting EXCEPT !["slash_post_schedule"] = << >> ]
    /\ UNCHANGED << phase, pc, schema, houses, reset_log, tx, claimed_count,
                    views, confirm_views, submitted, panel, map_vars, clock,
                    fired, SCHEDULE_CHANNEL_ID, printed, report_vars,
                    prompt_age, fixed_count, pool_vars, modal_embed,
                    refreshes, map_view >>

\* weekly_schedule_post up to await target_channel.send: the weekday, the
\* target channel, and the previous post fetched and deleted
weekly_post_send ==
    /\ phase = "ready" /\ LoopFree
    /\ clock.minute = 180
    /\ ~ fired
    /\ posting["weekly_schedule_post"] = << >>
    /\ is_tuesday(clock) => sent + InFlight < MaxPosts
    /\ fired' = TRUE
    /\ IF ~ is_tuesday(clock) \/ target_channel = << >>
       THEN UNCHANGED << channel_messages, printed, posting >>
       ELSE \E accepted \in BOOLEAN :
              LET previous == delete_previous(target_channel[1], accepted)
              IN  /\ channel_messages' = previous.messages
                  /\ printed' = previous.lines
                  /\ posting' = [ posting EXCEPT !["weekly_schedule_post"] =
                                    << [ channel |-> target_channel[1] ] >> ]
    /\ UNCHANGED << phase, pc, schema, houses, reset_log, tx, claimed_count,
                    views, confirm_views, submitted, panel, map_vars, clock,
                    last_schedule_message_id, SCHEDULE_CHANNEL_ID,
                    last_schedule_channel_id, bot_config, sent, report_vars,
                    prompt_age, fixed_count, pool_vars, modal_embed,
                    refreshes, map_view >>

\* weekly_schedule_post from the answer of target_channel.send on
weekly_post_sent ==
    /\ posting["weekly_schedule_post"] # << >>
    /\ LET channel == posting["weekly_schedule_post"][1].channel
       IN  /\ channel_messages' = channel_messages
                \cup { [ id |-> sent + 1, channel |-> channel ] }
           /\ sent' = sent + 1
           /\ last_schedule_message_id' = << sent + 1 >>
           /\ last_schedule_channel_id' = << channel >>
           /\ bot_config' = saved_config(SCHEDULE_CHANNEL_ID, << sent + 1 >>,
                                         << channel >>)
    /\ printed' = Append(printed, LinePosted)
    /\ posting' = [ posting EXCEPT !["weekly_schedule_post"] = << >> ]
    /\ UNCHANGED << phase, pc, schema, houses, reset_log, tx, claimed_count,
                    views, confirm_views, submitted, panel, map_vars, clock,
                    fired, SCHEDULE_CHANNEL_ID, report_vars, prompt_age,
                    fixed_count, pool_vars, modal_embed, refreshes,
                    map_view >>

NextPosting ==
    \/ Tick
    \/ weekly_post_send
    \/ weekly_post_sent
    \/ \E channel \in Channels : post_schedule_send(channel)
    \/ post_schedule_sent
    \/ \E channel \in Channels : slash_set_schedule_channel(channel)

\* a send that Discord has answered resumes its coroutine: the event loop
\* runs every coroutine whose await has completed
SpecPosting ==
    /\ InitSchedule
    /\ [][NextPosting]_vars
    /\ WF_vars(post_schedule_sent)
    /\ WF_vars(weekly_post_sent)

\* both posts are waiting for Discord, and every schedule post that exists
\* is the tracked one
BothSuspended ==
    /\ \A poster \in Posters : posting[poster] # << >>
    /\ \A m \in channel_messages : << m.id >> = last_schedule_message_id

\* both posts have been answered: the tracked id is that of the post sent
\* last, and every schedule post that exists is the tracked one
BothTracked ==
    (\A poster \in Posters : posting[poster] = << >>)
    => /\ last_schedule_message_id = << sent >>
       /\ \A m \in channel_messages :
            /\ << m.id >> = last_schedule_message_id
            /\ << m.channel >> = last_schedule_channel_id

\* C35: from a state in which /post_schedule and the Tuesday run of the
\* task are both suspended at their send, every state in which both have
\* gone on has the post sent last tracked and no other schedule post left
C35_InterleavedPostsTracked == [](BothSuspended => []BothTracked)

----------------------------------------------------------------------------
(* The configuration file against the three globals *)

\* the three globals
Globals ==
    << SCHEDULE_CHANNEL_ID, last_schedule_message_id,
       last_schedule_channel_id >>

\* C36: between the commands of SpecSchedule, the configuration file, once
\* written, holds the three globals as they are, so that load_bot_config
\* run in that state yields the same three values; while no file has been
\* written the three globals are None and load_bot_config leaves them so
C36_ConfigFollowsGlobals ==
    /\ bot_config # << >>
       => bot_config = << [ schedule_channel_id |-> SCHEDULE_CHANNEL_ID,
                            last_schedule_message_id |->
                                last_schedule_message_id,
                            last_schedule_channel_id |->
                                last_schedule_channel_id ] >>
    /\ bot_config = << >> => Globals = << << >>, << >>, << >> >>
    /\ load_bot_config = Globals

\* the schedule channel has been set, a schedule posted and the memory of
\* it cleared: the file holds the channel and no tracked post
C36_Witness ==
    /\ bot_config # << >>
    /\ bot_config[1].schedule_channel_id # << >>
    /\ bot_config[1].last_schedule_message_id = << >>
    /\ SCHEDULE_CHANNEL_ID # << >>
    /\ last_schedule_message_id = << >>
    /\ channel_messages # {}

----------------------------------------------------------------------------
(* The column completed_by under the actions on one house, from tables in  *)
(* which it is NULL in every row                                           *)

\* the roster as created, and the roster with its first house unlocked and
\* in progress, unclaimed or claimed
UncompletedTables ==
    { [ n \in Roster |-> DefaultRow ] }
    \cup { [ n \in Roster |->
               IF n = AllHouses[1]
               THEN [ DefaultRow EXCEPT !.quest = "Kill",
                                        !.current_goal = 35000,
                                        !.points_per_delivery = 23,
                                        !.is_locked = 0,
                                        !.alliance = a,
                                        !.last_updated = Earlier,
                                        !.updated_by = User ]
               ELSE DefaultRow ] : a \in { NULL, ATREIDES } }

\* texts typed into the Current Goal Amount field: below the goal, the
\* goal, above the goal
ReachingGoalInputs == { "500", "70000", "70001" }

InitCompleted ==
    /\ phase = "ready"
    /\ pc = "idle"
    /\ schema = TRUE
    /\ houses \in UncompletedTables
    /\ reset_log = << >>
    /\ tx = NoTx
    /\ claimed_count = 0
    /\ views = {}
    /\ confirm_views = {}
    /\ submitted = << >>
    /\ panel = << >>
    /\ sectors = init_database_locations(NoSectors)
    /\ pois = << >>
    /\ sector_views = {}
    /\ clock = [ weekday |-> 0, minute |-> 0 ]
    /\ fired = FALSE
    /\ last_schedule_message_id = << >>
    /\ channel_messages = {}
    /\ InitConfig
    /\ InitReports
    /\ prompt_age = NoPrompts
    /\ fixed_count = 0
    /\ InitPool
    /\ modal_embed = << >>
    /\ InitAwait

NextCompleted ==
    \/ \E house_name \in PanelNames : house_button_callback(house_name)
    \/ \E v \in views : claim_atreides_callback(v)
    \/ \E v \in views : claim_harkonnen_callback(v)
    \/ \E v \in views : unclaim_house_callback(v)
    \/ \E v \in views : cancel_callback(v)
    \/ \E v \in views, quest \in QuestInputs, ppd_text \in PpdInputs :
          unlock_on_submit(v, quest, ppd_text)
    \/ unlock_set_quest
    \/ unlock_set_ppd
    \/ \E v \in views, goal_text \in ReachingGoalInputs :
          update_on_submit(v, goal_text, "")
    \/ update_set_cp
    \/ \E house \in HouseInputs, faction \in FactionInputs :
          slash_claim_house(house, faction)
    \/ \E house \in HouseInputs, alliance \in FactionInputs :
          slash_set_alliance(house, alliance)
    \/ slash_fix_database

SpecCompleted == InitCompleted /\ [][NextCompleted]_vars

\* C37: from tables in which completed_by is NULL in every row, it is NULL
\* in every row of every reachable state
C37_CompletedByStaysAbsent ==
    \A n \in DOMAIN houses : houses[n].completed_by = NULL

\* a house has been brought past its goal and claimed
C37_Witness ==
    \E n \in DOMAIN houses :
        /\ houses[n].current_goal > houses[n].goal
        /\ houses[n].alliance = HARKONNEN
        /\ houses[n].updated_by = User
        /\ houses[n].completed_by = NULL

----------------------------------------------------------------------------
(* Survey status under the map commands *)

\* create_map_overview_embed: the three numbers of Survey Progress
create_map_overview_embed(t) ==
    [ complete |-> Cardinality({ s \in DOMAIN t :
                                   t[s].survey_status = "complete" }),
      partial |-> Cardinality({ s \in DOMAIN t :
                                  t[s].survey_status = "partial" }),
      unsurveyed |-> Cardinality({ s \in DOMAIN t :
                                     t[s].survey_status = "unsurveyed" }) ]

\* the place of a survey status in unsurveyed -> partial -> complete
StatusRank(status) ==
    CASE status = "unsurveyed" -> 0
      [] status = "partial" -> 1
      [] status = "complete" -> 2
      [] OTHER -> -1

\* no sector's status is lower after the step than before it
C38_SurveyNeverBackward_Step ==
    \A s \in DOMAIN sectors :
        /\ s \in DOMAIN sectors'
        /\ StatusRank(sectors'[s].survey_status)
             >= StatusRank(sectors[s].survey_status)

\* C38: under /deepdesert, the sector views, the add forms, Mark Surveyed
\* and /quickadd no sector's survey status moves backward, and the
\* complete, partial and unsurveyed counts of the overview always sum to
\* the number of sectors of the grid (81 in the program)
C38_SurveyNeverBackward ==
    /\ [](LET stats == create_map_overview_embed(sectors)
          IN  stats.complete + stats.partial + stats.unsurveyed
                = GridSize * GridSize)
    /\ [][C38_SurveyNeverBackward_Step]_vars

\* a point of interest has been added by /quickadd to a sector marked
\* complete, which is still complete, and another sector is partial
C38_Witness ==
    /\ \E i \in DOMAIN pois :
          /\ pois[i].sector_id \in DOMAIN sectors
          /\ sectors[pois[i].sector_id].survey_status = "complete"
          /\ sectors[pois[i].sector_id].last_surveyed = CURRENT_TIMESTAMP
    /\ create_map_overview_embed(sectors).partial >= 1
    /\ create_map_overview_embed(sectors).complete >= 1

----------------------------------------------------------------------------
(* The connections handed out by get_connection *)

\* the idle connections
Idle == { connections[i] : i \in 1..Len(connections) }

\* the connections callers hold
HeldConnections ==
    { holding[caller][1] : caller \in { c \in Callers : holding[c] # << >> } }

\* C39: no connection is held by two callers or held while it is idle or
\* closed; every connection opened is held, idle or closed, whichever way
\* the with blocks were left; and at most max_connections are idle
C39_PoolHandsOutOnce ==
    /\ \A c, d \in Callers :
          (c # d /\ holding[c] # << >>) => holding[c] # holding[d]
    /\ HeldConnections \cap Idle = {}
    /\ Cardinality(Idle) = Len(connections)
    /\ closed \cap (HeldConnections \cup Idle) = {}
    /\ HeldConnections \cup Idle \cup closed = 1..opened
    /\ Len(connections) <= max_connections

\* one connection more than max_connections was opened, one was closed on
\* release because the idle list was full, and an idle connection has been
\* handed out again
C39_Witness ==
    /\ Len(connections) = max_connections - 1
    /\ closed # {}
    /\ \E caller \in Callers :
          /\ holding[caller] # << >>
          /\ holding[caller][1] <= max_connections + 1
    /\ opened = max_connections + 1

----------------------------------------------------------------------------
(* The pages of the Deep Desert map *)

NextPaging ==
    \/ slash_deepdesert
    \/ next_page
    \/ prev_page
    \/ \E sector_id \in MapButtons : sector_callback(sector_id)
    \/ \E sector_id \in sector_views : mark_surveyed_callback(sector_id)
    \/ \E sector_id \in sector_views : sector_view_timeout(sector_id)
    \/ \E sector \in SectorInputs, location_type \in LocationTypeInputs :
          slash_quickadd(sector, location_type)

SpecPaging == InitMap /\ [][NextPaging]_vars

\* the items of a view placed in one of its rows
InRow(view, row) ==
    { i \in DOMAIN view.children : view.children[i].row = row }

\* C40: the map view of every page holds at most 25 items, sector buttons
\* and navigation buttons together, at most 5 of them in any row, and its
\* start row is one from which five rows of A-I are shown
C40_PageFitsView ==
    map_view # << >> =>
        /\ Len(map_view[1].children) <= 25
        /\ \A row \in 0..4 : Cardinality(InRow(map_view[1], row)) <= 5
        /\ map_view[1].start_row \in 0..4

====
